---- MODULE Spec2Model ----
(***************************************************************************)
(* SpeedMimi request dispatch engine.                                      *)
(*                                                                         *)
(* State: the backends of the upstream "default" (connection gauge,        *)
(* max_conn, the atomic and the serialised active flag, the disconnect     *)
(* mark, weight, performance snapshot), the routing rules, the position of *)
(* every dispatcher goroutine inside handleRequest / proxyRequest /        *)
(* DecConnections, and the goroutine spawned by the disconnect endpoint.   *)
(*                                                                         *)
(* One SelectBackend call is evaluated on one reading of the atomics; the  *)
(* window between the selection and IncConnections, and the window between *)
(* the load and the compare-and-swap of DecConnections, are separate steps.*)
(* The cumulative statistics of the monitor (totalRequests, bytes) are     *)
(* never read by the dispatch path and are left out.                       *)
(***************************************************************************)
EXTENDS Integers, Sequences, FiniteSets, TLC

\* ------------------------------------------------------------------ bounds
NumReq == 2
MaxLimit == 1
MaxGauge == 3
GaugeCallers == 3
LimitCallers == 3
SelConn == 2
DrainCallers == 3
AdminCallers == 2
ReportCallers == 2
MaxPathLen == 2
MaxWeight == 3
WeightCalls == 6
IPHashCallers == 2
RetryCallers == 2
ConfigCallers == 1

\* --------------------------------------------------------------- constants
None == "none"

\* setDefaults: backend.MaxConn = 1000
DefaultMaxConn == 1000

\* fasthttp.Client.MaxIdemponentCallAttempts set by proxyRequest
MaxIdemponentCallAttempts == 2

\* Backend.Performance before the first UpdatePerformance
NilPerformance == [nil |-> TRUE]

\* two PerformanceInfo snapshots (percentages)
Busy == [CPUUsage |-> 50, MemoryUsage |-> 50, LoadAvg1 |-> 10]

Calm == [CPUUsage |-> 10, MemoryUsage |-> 10, LoadAvg1 |-> 0]

Backends == {"A", "B", "C"}

BackendOrder == <<"A", "B", "C">>

UpstreamNames == {"default"}

Reqs == 1..NumReq

IPHash == "ip_hash"

LeastConnections == "least_connections"

LeastConnectionsWeight == "least_connections_weight"

Weight == "weight"

PerformanceLCW == "performance_least_connections_weight"

LBTypes == {IPHash, LeastConnections, LeastConnectionsWeight, Weight, PerformanceLCW}

ProtocolTypes == {"http", "https", "websocket", "sse"}

\* math.MaxInt64; the largest integer of the model checker stands for it
MaxInt64 == 2147483647

StatusNotFound == 404

StatusBadGateway == 502

StatusServiceUnavailable == 503

StatusOK == 200

MsgLimit == "Service Unavailable (All backends at connection limit)"

MsgUnavailable == "Service Unavailable"

\* host:port of a backend (Backend.Host, Backend.Port)
Addr(b) == CASE b = "A" -> "127.0.0.1:8081"
             [] b = "B" -> "127.0.0.1:8082"
             [] OTHER   -> "127.0.0.1:8083"

\* Host header values of inbound requests: the proxy's own listener, or a
\* client that names a backend address directly.
HostHeaders == {"localhost:8080", "127.0.0.1:8081"}

\* request paths and rule prefixes, as sequences of characters
PathRoot == <<"/">>

PathA == <<"/", "a">>

PathW == <<"/", "w">>

Paths == {PathRoot, PathA, PathW}

VARIABLES
    Connections,        \* Backend.Connections (int64, atomic)
    MaxConn,            \* Backend.MaxConn
    MaxConnSeen,        \* what a plain load of Backend.MaxConn in a dispatcher returns
    active,             \* Backend.active (int32, atomic)
    Active,             \* Backend.Active (serialised field)
    disconnect,         \* Backend.disconnect (int32, atomic)
    BWeight,            \* Backend.Weight
    Performance,        \* Backend.Performance (nil or a snapshot)
    Routing,            \* Config.Routing: rule name -> rule
    activeConnections,  \* PerformanceMonitor.activeConnections
    pc,                 \* position of each dispatcher goroutine
    backend,            \* the backend SelectBackend returned to it
    reqHost,            \* Host header of its inbound request
    reqMethod,          \* method of its inbound request
    attempts,           \* upstream attempts client.Do has made for it
    current,            \* local `current` of DecConnections
    status,             \* status code written to its response
    message,            \* body written by ctx.Error
    task,               \* goroutine spawned by handleDisconnectBackend
    adminResp,          \* last response of the admin endpoints
    adminReq,           \* body of the last update request served
    perfTask,           \* goroutine spawned by handleReportPerformance
    callArg,            \* argument of a function applied on its own
    callRet,            \* what the function returned
    config,             \* Manager.config
    file,               \* content of the file at Manager.configPath
    watcher,            \* buffer of the channel WatchConfig gave the proxy server
    cfgReq,             \* body of the last PUT /api/v1/config served
    fasthttpServer,     \* the settings of Server.server that updateConfig writes
    upstreamMgr,        \* UpstreamManager: the upstreams slice and the names map
    rangeState,         \* initUpstreams' range over cfg.Backends: names left, name in hand
    watchers,           \* Manager.watchers after the proxy's own channel
    chans,              \* those channels: buffer and whether closed
    monitor,            \* PerformanceMonitor: ctx and the two channels
    panicked            \* the runtime error that ended the process, if any

vars == <<Connections, MaxConn, MaxConnSeen, active, Active, disconnect, BWeight,
          Performance, Routing, activeConnections, pc, backend, reqHost, reqMethod,
          attempts, current, status, message, task, adminResp, adminReq, perfTask,
          callArg, callRet, config, file, watcher, cfgReq, fasthttpServer,
          upstreamMgr, rangeState, watchers, chans, monitor, panicked>>

backendVars == <<Connections, MaxConn, MaxConnSeen, active, Active, disconnect, BWeight,
                 Performance>>

reqVars == <<pc, backend, reqHost, reqMethod, attempts, current, status, message>>

adminVars == <<task, adminResp, adminReq, perfTask>>

callVars == <<callArg, callRet>>

cfgVars == <<config, file, watcher, cfgReq, fasthttpServer>>

svcVars == <<upstreamMgr, rangeState, watchers, chans, monitor, panicked>>

\* ------------------------------------------------------- Backend accessors
GetConnections(b) == Connections[b]

IsActive(b) == active[b] = 1

\* a read that never sees the mark
ShouldDisconnectNever(b) == FALSE

ShouldDisconnect(b) == disconnect[b] = 1

IsConnectionLimitReachedOffByOne(b) ==
    IF MaxConnSeen[b] <= 0 THEN FALSE ELSE GetConnections(b) > MaxConnSeen[b]

\* b.MaxConn is a plain field: the load returns what this goroutine sees
IsConnectionLimitReached(b) ==
    IF MaxConnSeen[b] <= 0 THEN FALSE ELSE GetConnections(b) >= MaxConnSeen[b]

\* utilisation, scaled by 1000: 0.4*cpu/100 + 0.4*mem/100 + 0.2*load1/100
CalculateUtilization(b) ==
    IF Performance[b] = NilPerformance THEN 0
    ELSE LET u == 4 * Performance[b].CPUUsage + 4 * Performance[b].MemoryUsage
                  + 2 * Performance[b].LoadAvg1
         IN IF u > 1000 THEN 1000 ELSE u

\* Upstream.GetBackends: the backends whose atomic and serialised flag are set
GetBackends == SelectSeq(BackendOrder, LAMBDA b : IsActive(b) /\ Active[b])

\* ------------------------------------------------------ load balancers
\* the filter every balancer applies: active, not marked, below its limit
EligibleNoDrainCheck(b) == IsActive(b) /\ ~IsConnectionLimitReached(b)

Eligible(b) == IsActive(b) /\ ~ShouldDisconnect(b) /\ ~IsConnectionLimitReached(b)

Range(s) == {s[i] : i \in 1..Len(s)}

\* for _, backend := range s { if backend.GetConnections() < minConn {...} }
\* minConn starts at MaxInt64
RECURSIVE MinConnLoop(_, _, _, _)
MinConnLoop(s, i, minConn, selected) ==
    IF i > Len(s) THEN selected
    ELSE IF GetConnections(s[i]) < minConn
         THEN MinConnLoop(s, i + 1, GetConnections(s[i]), s[i])
         ELSE MinConnLoop(s, i + 1, minConn, selected)

\* IPHashBalancer.getClientIP: always the empty string
getClientIP == <<>>

RECURSIVE Xor(_, _)
Xor(a, b) ==
    IF a = 0 THEN b
    ELSE IF b = 0 THEN a
    ELSE (2 * Xor(a \div 2, b \div 2)) + (((a % 2) + (b % 2)) % 2)

\* hash/fnv New32a: the 32-bit state is kept as two 16-bit halves.
\* h *= 16777619 (= 2^24 + 403) modulo 2^32
FnvMul(h) ==
    [lo |-> (h.lo * 403) % 65536,
     hi |-> ((h.hi * 403) + ((h.lo * 403) \div 65536) + ((h.lo % 256) * 256)) % 65536]

RECURSIVE FnvLoop(_, _, _)
FnvLoop(ip, i, h) ==
    IF i > Len(ip) THEN h
    ELSE FnvLoop(ip, i + 1, FnvMul([hi |-> h.hi, lo |-> Xor(h.lo, ip[i])]))

\* IPHashBalancer.hashIP: offset basis 2166136261 = 33052 * 2^16 + 40389
hashIP(ip) == FnvLoop(ip, 1, [hi |-> 33052, lo |-> 40389])

\* int(hash) % n
HashMod(h, n) == ((h.hi * (65536 % n)) + h.lo) % n

\* IPHashBalancer.selectRandom: least connections among the eligible
selectRandom(backends) ==
    MinConnLoop(SelectSeq(backends, Eligible), 1, MaxInt64, None)

IPHashSelect(backends) ==
    IF Len(backends) = 0 THEN {None}
    ELSE LET availableBackends ==
                 SelectSeq(backends, LAMBDA b : ~IsConnectionLimitReached(b))
         IN IF Len(availableBackends) = 0 THEN {None}
            ELSE IF getClientIP = <<>> THEN {selectRandom(availableBackends)}
            ELSE {availableBackends[HashMod(hashIP(getClientIP), Len(availableBackends)) + 1]}

LeastConnectionsSelect(backends) ==
    IF Len(backends) = 0 THEN {None}
    ELSE LET availableBackends == SelectSeq(backends, Eligible)
         IN IF Len(availableBackends) = 0 THEN {None}
            ELSE {MinConnLoop(availableBackends, 1, MaxInt64, None)}

\* weight := backend.Weight; if weight <= 0 { weight = 1 }
ScoreWeight(b) == IF BWeight[b] <= 0 THEN 1 ELSE BWeight[b]

\* scores that leave the weights out
LCWScoreLessNoWeight(a, b) == GetConnections(a) < GetConnections(b)

\* connections(a)/weight(a) < connections(b)/weight(b), cross-multiplied
LCWScoreLess(a, b) ==
    GetConnections(a) * ScoreWeight(b) < GetConnections(b) * ScoreWeight(a)

\* sort by score, keep the candidates whose score equals the first one's,
\* draw one of them at random
LeastConnectionsWeightSelect(backends) ==
    IF Len(backends) = 0 THEN {None}
    ELSE LET candidates == Range(SelectSeq(backends, Eligible))
         IN IF candidates = {} THEN {None}
            ELSE {b \in candidates : \A o \in candidates : ~LCWScoreLess(o, b)}

RECURSIVE SumWeight(_, _)
SumWeight(s, i) == IF i > Len(s) THEN 0 ELSE BWeight[s[i]] + SumWeight(s, i + 1)

\* r := 0; currentWeight += backend.Weight; if r < currentWeight { return backend }
RECURSIVE WeightWalk(_, _, _)
WeightWalk(s, i, currentWeight) ==
    IF i > Len(s) THEN s[1]
    ELSE IF 0 < currentWeight + BWeight[s[i]] THEN s[i]
    ELSE WeightWalk(s, i + 1, currentWeight + BWeight[s[i]])

\* a walk that returns the first available backend whatever its weight
WeightSelectFirst(backends) ==
    IF Len(backends) = 0 THEN {None}
    ELSE LET availableBackends == SelectSeq(backends, Eligible)
         IN IF Len(availableBackends) = 0 THEN {None}
            ELSE {availableBackends[1]}

\* WeightBalancer.SelectBackend
WeightSelect(backends) ==
    IF Len(backends) = 0 THEN {None}
    ELSE LET availableBackends == SelectSeq(backends, Eligible)
         IN IF Len(availableBackends) = 0 THEN {None}
            ELSE IF SumWeight(availableBackends, 1) = 0 THEN {None}
            ELSE {WeightWalk(availableBackends, 1, 0)}

\* calculateScore = 0.7*connections/weight + 0.3*utilisation*100, times
\* 100*weight so that it is an integer: 70*connections + 3*(1000*util)*weight
PerfScoreNum(b) == 70 * GetConnections(b) + 3 * CalculateUtilization(b) * ScoreWeight(b)

PerfScoreLess(a, b) == PerfScoreNum(a) * ScoreWeight(b) < PerfScoreNum(b) * ScoreWeight(a)

\* sort.Slice is not stable: candidates[0] is any candidate of least score
PerformanceLCWSelect(backends) ==
    IF Len(backends) = 0 THEN {None}
    ELSE LET candidates == Range(SelectSeq(backends, Eligible))
         IN IF candidates = {} THEN {None}
            ELSE {b \in candidates : \A o \in candidates : ~PerfScoreLess(o, b)}

\* Factory.GetBalancer: an unknown type falls back to least_connections_weight
GetBalancer(t) == IF t \in LBTypes THEN t ELSE LeastConnectionsWeight

\* balancer.SelectBackend(backends, ctx): the set of backends the call can return
SelectBackend(balancer, backends) ==
    CASE balancer = IPHash -> IPHashSelect(backends)
      [] balancer = LeastConnections -> LeastConnectionsSelect(backends)
      [] balancer = LeastConnectionsWeight -> LeastConnectionsWeightSelect(backends)
      [] balancer = Weight -> WeightSelect(backends)
      [] balancer = PerformanceLCW -> PerformanceLCWSelect(backends)

\* ------------------------------------------------------------- routing
\* strings.HasPrefix(path, prefix)
HasPrefix(path, prefix) ==
    /\ Len(prefix) <= Len(path)
    /\ SubSeq(path, 1, Len(prefix)) = prefix

\* Server.findRoutingRule: the range over the map visits the rules in an
\* unspecified order and returns the first whose Path is a prefix; the
\* result is the rule's name, None for nil
findRoutingRule(path) ==
    LET matching == {n \in DOMAIN Routing : HasPrefix(path, Routing[n].Path)}
    IN IF matching # {} THEN matching
       ELSE IF "default" \in DOMAIN Routing THEN {"default"}
       ELSE {None}

\* a detection that looks at Accept before Upgrade
detectProtocolSSEFirst(upgrade, accept, tls) ==
    IF accept = "text/event-stream" THEN "sse"
    ELSE IF upgrade = "websocket" THEN "websocket"
    ELSE IF tls THEN "https"
    ELSE "http"

\* Server.detectProtocol on the request's Upgrade and Accept headers and
\* ctx.IsTLS()
detectProtocol(upgrade, accept, tls) ==
    IF upgrade = "websocket" THEN "websocket"
    ELSE IF accept = "text/event-stream" THEN "sse"
    ELSE IF tls THEN "https"
    ELSE "http"

\* Server.detectProtocol is the request's tag; Server.determineLBType
determineLBType(rule, protocol) ==
    IF protocol \in DOMAIN rule.Protocols THEN rule.Protocols[protocol]
    ELSE rule.LoadBalancer

\* UpstreamManager.GetUpstream(name) # nil
UpstreamExists(name) == name \in DOMAIN upstreamMgr.names

\* what fasthttp.Client.Do(&ctx.Request, ...) connects to: the host of the
\* request it is given, which is the inbound request
DialAddr(r) == reqHost[r]

\* ------------------------------------------------------- configurations
EmptyMap == [x \in {} |-> None]

\* the routing section of the configuration: two rules that between them
\* reach every balancer, and no rule for "/" or named "default"
RoutingConfig ==
    [n \in {"api", "web"} |->
        IF n = "api"
        THEN [Path |-> PathA, Upstream |-> "default",
              LoadBalancer |-> LeastConnectionsWeight,
              Protocols |-> [p \in {"https", "websocket", "sse"} |->
                                CASE p = "https" -> IPHash
                                  [] p = "websocket" -> LeastConnections
                                  [] p = "sse" -> Weight]]
        ELSE [Path |-> PathW, Upstream |-> "default",
              LoadBalancer |-> PerformanceLCW, Protocols |-> EmptyMap]]

\* a routing section whose only rule dispatches every request with lb
RoutingOnly(lb) ==
    [n \in {"default"} |->
        [Path |-> PathRoot, Upstream |-> "default",
         LoadBalancer |-> lb, Protocols |-> EmptyMap]]

\* the `active:` settings of the configuration file
ActiveConfigs == {{"A", "B"}, {"A"}}

\* the `weight:` settings of the configuration file
WeightConfig == [b \in Backends |-> IF b = "B" THEN 2 ELSE 1]

\* request bodies of the admin endpoints
Malformed == [valid |-> FALSE]

\* no goroutine of the disconnect endpoint is running
NoTask == [running |-> FALSE]

DisconnectBodies ==
    {Malformed}
    \cup {[valid |-> TRUE, upstream_id |-> u, backend_id |-> b] :
             u \in {"default"}, b \in {"A", "B", "zz"}}
    \cup {[valid |-> TRUE, upstream_id |-> "", backend_id |-> "A"]}

UpdateBodies ==
    {Malformed}
    \cup {[valid |-> TRUE, upstream_id |-> u, backend_id |-> b, max_conn |-> m] :
             u \in {"default"}, b \in {"A", "B", "zz"}, m \in 0..MaxLimit}
    \cup {[valid |-> TRUE, upstream_id |-> "", backend_id |-> "A", max_conn |-> 1]}

\* ---------------------------------------------------------- configuration
\* Config.Backends of the configuration NewManager loaded: its Backend objects
\* are the ones the upstream registry holds, so their fields are the backend
\* variables; a configuration decoded from a request body has objects of its own
Live == [live |-> TRUE]

\* Config.Server of the configuration file (durations in seconds)
ServerSection ==
    [Port |-> 8080, ReadTimeout |-> 30, WriteTimeout |-> 30, MaxConn |-> 10000,
     RealIPHeader |-> "X-Real-IP"]

\* Config.SSL
SSLSection == [Enabled |-> FALSE, CertFile |-> "", KeyFile |-> ""]

\* Backend.Port
BackendPort(b) == CASE b = "A" -> 8081 [] b = "B" -> 8082 [] OTHER -> 8083

\* the serialised fields of a registry backend (Connections, Performance and
\* the atomic flags are tagged yaml:"-")
BackendEntry(b) ==
    [ID |-> b, Host |-> "127.0.0.1", Port |-> BackendPort(b), Weight |-> BWeight[b],
     Active |-> Active[b], MaxConn |-> MaxConn[b]]

\* the content of a configuration: what yaml.Marshal writes for it
Marshal(cfg) ==
    IF cfg.Backends = Live
    THEN [cfg EXCEPT !.Backends =
             [u \in UpstreamNames |->
                 [i \in 1..Len(BackendOrder) |-> BackendEntry(BackendOrder[i])]]]
    ELSE cfg

\* Manager.setDefaults on a freshly parsed configuration
setDefaults(cfg) ==
    [Server |->
        [cfg.Server EXCEPT
            !.ReadTimeout = IF @ = 0 THEN 30 ELSE @,
            !.WriteTimeout = IF @ = 0 THEN 30 ELSE @,
            !.MaxConn = IF @ = 0 THEN 10000 ELSE @,
            !.RealIPHeader = IF @ = "" THEN "X-Real-IP" ELSE @],
     SSL |-> cfg.SSL,
     Backends |->
        [u \in DOMAIN cfg.Backends |->
            [i \in 1..Len(cfg.Backends[u]) |->
                [cfg.Backends[u][i] EXCEPT
                    !.Weight = IF @ = 0 THEN 100 ELSE @,
                    !.MaxConn = IF @ = 0 THEN DefaultMaxConn ELSE @]]],
     Routing |->
        [n \in DOMAIN cfg.Routing |->
            [cfg.Routing[n] EXCEPT
                !.Path = IF @ = <<>> THEN PathRoot ELSE @,
                !.LoadBalancer = IF @ = "" THEN LeastConnectionsWeight ELSE @]]]

\* a validation that forgets the server port
validateConfigNoPort(cfg) ==
    /\ cfg.SSL.Enabled => (cfg.SSL.CertFile # "" /\ cfg.SSL.KeyFile # "")
    /\ \A u \in DOMAIN cfg.Backends :
          /\ Len(cfg.Backends[u]) # 0
          /\ \A i \in 1..Len(cfg.Backends[u]) :
                /\ cfg.Backends[u][i].Host # ""
                /\ ~(cfg.Backends[u][i].Port <= 0 \/ cfg.Backends[u][i].Port > 65535)
    /\ \A n \in DOMAIN cfg.Routing :
          /\ cfg.Routing[n].Upstream # ""
          /\ cfg.Routing[n].Upstream \in DOMAIN cfg.Backends

\* Manager.validateConfig(config) = nil
validateConfig(cfg) ==
    /\ ~(cfg.Server.Port <= 0 \/ cfg.Server.Port > 65535)
    /\ cfg.SSL.Enabled => (cfg.SSL.CertFile # "" /\ cfg.SSL.KeyFile # "")
    /\ \A u \in DOMAIN cfg.Backends :
          /\ Len(cfg.Backends[u]) # 0
          /\ \A i \in 1..Len(cfg.Backends[u]) :
                /\ cfg.Backends[u][i].Host # ""
                /\ ~(cfg.Backends[u][i].Port <= 0 \/ cfg.Backends[u][i].Port > 65535)
    /\ \A n \in DOMAIN cfg.Routing :
          /\ cfg.Routing[n].Upstream # ""
          /\ cfg.Routing[n].Upstream \in DOMAIN cfg.Backends

\* NewManager and proxy.NewServer: the configuration in memory is the loaded
\* one, the file holds its content, the proxy server's channel is empty and
\* the fasthttp server has the settings NewServer gave it
InitCfg ==
    /\ config = [Server |-> ServerSection, SSL |-> SSLSection, Backends |-> Live,
                 Routing |-> Routing]
    /\ file = Marshal(config)
    /\ watcher = <<>>
    /\ cfgReq = NoTask
    /\ fasthttpServer = [ReadTimeout |-> 30, WriteTimeout |-> 30, Concurrency |-> 10000000]

\* make(chan T, 1): an open channel with an empty buffer
NewChan == [buf |-> <<>>, closed |-> FALSE]

\* a non-blocking send (select with a default case) on an open channel of
\* capacity 1: the value is buffered if there is room and dropped otherwise
TrySend(ch, v) == IF Len(ch.buf) < 1 THEN [ch EXCEPT !.buf = Append(@, v)] ELSE ch

\* UpstreamManager.CreateUpstream on a name that is not registered: the
\* upstream is appended and names[name] is its position (counted from 1 here)
CreateUpstream(mgr, name) ==
    [upstreams |-> Append(mgr.upstreams, name),
     names |-> [n \in DOMAIN mgr.names \cup {name} |->
                  IF n = name THEN Len(mgr.upstreams) + 1 ELSE mgr.names[n]]]

\* NewServer: initUpstreams has registered the upstreams of the loaded
\* configuration; nothing else has subscribed to the manager; NewPerformanceMonitor
InitSvc ==
    /\ upstreamMgr = [upstreams |-> <<"default">>, names |-> [n \in UpstreamNames |-> 1]]
    /\ rangeState = NoTask
    /\ watchers = <<>>
    /\ chans = EmptyMap
    /\ monitor = [cancelled |-> FALSE, sampleChan |-> NewChan, reportChan |-> NewChan,
                  reports |-> 0]
    /\ panicked = None

\* ------------------------------------------------------------------ Init
\* NewServer: initUpstreams has copied `Active` into the atomic flag
InitBackends(act, w, m) ==
    /\ Connections = [b \in Backends |-> 0]
    /\ MaxConn = [b \in Backends |-> m]
    /\ MaxConnSeen = MaxConn
    /\ Active = [b \in Backends |-> b \in act]
    /\ active = [b \in Backends |-> IF b \in act THEN 1 ELSE 0]
    /\ disconnect = [b \in Backends |-> 0]
    /\ BWeight = w
    /\ Performance = [b \in Backends |-> NilPerformance]

InitReqs(R) ==
    /\ activeConnections = 0
    /\ pc = [r \in R |-> "idle"]
    /\ backend = [r \in R |-> None]
    /\ reqHost = [r \in R |-> None]
    /\ reqMethod = [r \in R |-> None]
    /\ attempts = [r \in R |-> 0]
    /\ current = [r \in R |-> 0]
    /\ status = [r \in R |-> 0]
    /\ message = [r \in R |-> None]

InitAdmin ==
    /\ task = NoTask
    /\ adminResp = 0
    /\ adminReq = NoTask
    /\ perfTask = NoTask

\* no function has been applied on its own
InitCall ==
    /\ callArg = None
    /\ callRet = None

Init ==
    /\ \E act \in ActiveConfigs : InitBackends(act, WeightConfig, 1)
    /\ Routing = RoutingConfig
    /\ InitReqs(Reqs)
    /\ InitAdmin
    /\ InitCall
    /\ InitCfg
    /\ InitSvc

\* ------------------------------------------------------ dispatch pipeline
\* ctx.Error(msg, code); return
ErrorReturn(r, code, msg) ==
    /\ pc' = [pc EXCEPT ![r] = "done"]
    /\ status' = [status EXCEPT ![r] = code]
    /\ message' = [message EXCEPT ![r] = msg]
    /\ UNCHANGED <<backend, reqHost, reqMethod, attempts, current>>

\* Server.handleRequest up to the call of proxyRequest
HandleRequest(r) ==
    /\ pc[r] = "idle"
    /\ activeConnections' = activeConnections + 1
    /\ \E path \in Paths, protocol \in ProtocolTypes :
         \E rule \in findRoutingRule(path) :
            IF rule = None
            THEN ErrorReturn(r, StatusNotFound, "Not Found")
            ELSE IF ~UpstreamExists(Routing[rule].Upstream)
            THEN ErrorReturn(r, StatusServiceUnavailable, MsgUnavailable)
            ELSE IF Len(GetBackends) = 0
            THEN ErrorReturn(r, StatusServiceUnavailable, MsgUnavailable)
            ELSE LET balancer == GetBalancer(determineLBType(Routing[rule], protocol))
                 IN \E b \in SelectBackend(balancer, GetBackends) :
                       IF b = None
                       THEN ErrorReturn(r, StatusServiceUnavailable, MsgLimit)
                       ELSE /\ pc' = [pc EXCEPT ![r] = "selected"]
                            /\ backend' = [backend EXCEPT ![r] = b]
                            /\ UNCHANGED <<reqHost, reqMethod, attempts, current, status, message>>
    /\ UNCHANGED <<backendVars, Routing, callVars, cfgVars, svcVars, adminVars>>

\* Backend.IncConnections: atomic.AddInt64(&b.Connections, 1)
IncConnections(b) == Connections' = [Connections EXCEPT ![b] = @ + 1]

\* Server.proxyRequest for a request carrying one of the given Host headers
\* and methods: backend.IncConnections(), headers, client.Do starts its first
\* attempt on the inbound request, whose Host header and method are first
\* read here
ProxyRequestFrom(r, hosts, methods) ==
    /\ pc[r] = "selected"
    /\ IncConnections(backend[r])
    /\ pc' = [pc EXCEPT ![r] = "inflight"]
    /\ \E host \in hosts : reqHost' = [reqHost EXCEPT ![r] = host]
    /\ \E method \in methods : reqMethod' = [reqMethod EXCEPT ![r] = method]
    /\ attempts' = [attempts EXCEPT ![r] = 1]
    /\ UNCHANGED <<MaxConn, MaxConnSeen, active, Active, disconnect, BWeight, Performance, Routing, callVars, cfgVars, svcVars,
                   activeConnections, backend, current, status, message, adminVars>>

ProxyRequest(r) == ProxyRequestFrom(r, HostHeaders, {"POST"})

\* RetryIf: func(req) bool { return string(req.Header.Method()) == "GET" }
RetryIf(method) == method = "GET"

\* a client that retries whatever the method
UpstreamRetryAnyMethod(r) ==
    /\ pc[r] = "inflight"
    /\ attempts[r] < MaxIdemponentCallAttempts
    /\ attempts' = [attempts EXCEPT ![r] = @ + 1]
    /\ UNCHANGED <<backendVars, Routing, callVars, cfgVars, svcVars, activeConnections, pc, backend, reqHost,
                   reqMethod, current, status, message, adminVars>>

\* inside client.Do: an attempt failed, the client's RetryIf accepts the
\* request and fewer than MaxIdemponentCallAttempts attempts were made, so
\* the same request is issued once more; proxyRequest has not returned
UpstreamRetry(r) ==
    /\ pc[r] = "inflight"
    /\ RetryIf(reqMethod[r])
    /\ attempts[r] < MaxIdemponentCallAttempts
    /\ attempts' = [attempts EXCEPT ![r] = @ + 1]
    /\ UNCHANGED <<backendVars, Routing, callVars, cfgVars, svcVars, activeConnections, pc, backend, reqHost,
                   reqMethod, current, status, message, adminVars>>

\* client.Do returned nil: the upstream response is the client's response
UpstreamReturns(r) ==
    /\ pc[r] = "inflight"
    /\ pc' = [pc EXCEPT ![r] = "dec_load"]
    /\ status' = [status EXCEPT ![r] = StatusOK]
    /\ reqHost' = [reqHost EXCEPT ![r] = None]
    /\ reqMethod' = [reqMethod EXCEPT ![r] = None]
    /\ attempts' = [attempts EXCEPT ![r] = 0]
    /\ UNCHANGED <<backendVars, Routing, callVars, cfgVars, svcVars, activeConnections, backend, current,
                   message, adminVars>>

\* an error path that returns without the decrement
UpstreamFailsNoDec(r) ==
    /\ pc[r] = "inflight"
    /\ pc' = [pc EXCEPT ![r] = "done"]
    /\ status' = [status EXCEPT ![r] = StatusBadGateway]
    /\ message' = [message EXCEPT ![r] = "Bad Gateway"]
    /\ reqHost' = [reqHost EXCEPT ![r] = None]
    /\ reqMethod' = [reqMethod EXCEPT ![r] = None]
    /\ attempts' = [attempts EXCEPT ![r] = 0]
    /\ UNCHANGED <<backendVars, Routing, callVars, cfgVars, svcVars, activeConnections, backend, current,
                   adminVars>>

\* client.Do returned an error: ctx.Error("Bad Gateway", 502)
UpstreamFails(r) ==
    /\ pc[r] = "inflight"
    /\ pc' = [pc EXCEPT ![r] = "dec_load"]
    /\ status' = [status EXCEPT ![r] = StatusBadGateway]
    /\ message' = [message EXCEPT ![r] = "Bad Gateway"]
    /\ reqHost' = [reqHost EXCEPT ![r] = None]
    /\ reqMethod' = [reqMethod EXCEPT ![r] = None]
    /\ attempts' = [attempts EXCEPT ![r] = 0]
    /\ UNCHANGED <<backendVars, Routing, callVars, cfgVars, svcVars, activeConnections, backend, current,
                   adminVars>>

\* Backend.DecConnections: current := atomic.LoadInt64; if current <= 0 { return }
DecLoad(r) ==
    /\ pc[r] = "dec_load"
    /\ current' = [current EXCEPT ![r] = Connections[backend[r]]]
    /\ pc' = [pc EXCEPT ![r] = IF Connections[backend[r]] <= 0 THEN "done" ELSE "dec_cas"]
    /\ UNCHANGED <<backendVars, Routing, callVars, cfgVars, svcVars, activeConnections, backend, reqHost, reqMethod, attempts,
                   status, message, adminVars>>

\* a decrement that subtracts without comparing
BlindSubtract(b, cur) == [Connections EXCEPT ![b] = @ - 1]

\* atomic.CompareAndSwapInt64(&b.Connections, current, current-1): the new gauge
CompareAndSwap(b, cur) ==
    IF Connections[b] = cur THEN [Connections EXCEPT ![b] = cur - 1] ELSE Connections

\* a retry loop that tries the compare-and-swap again with the value it
\* loaded before the loop
DecCASStale(r) ==
    /\ pc[r] = "dec_cas"
    /\ Connections' = CompareAndSwap(backend[r], current[r])
    /\ pc' = [pc EXCEPT ![r] = IF Connections[backend[r]] = current[r]
                                THEN "done" ELSE "dec_cas"]
    /\ current' = [current EXCEPT ![r] = IF Connections[backend[r]] = current[r]
                                          THEN 0 ELSE @]
    /\ UNCHANGED <<MaxConn, MaxConnSeen, active, Active, disconnect, BWeight, Performance, Routing, callVars, cfgVars, svcVars,
                   activeConnections, backend, reqHost, reqMethod, attempts, status, message, adminVars>>

\* Backend.DecConnections: the compare-and-swap; a failure loops back to the
\* load, a success returns and the local `current` goes out of scope
DecCAS(r) ==
    /\ pc[r] = "dec_cas"
    /\ Connections' = CompareAndSwap(backend[r], current[r])
    /\ pc' = [pc EXCEPT ![r] = IF Connections[backend[r]] = current[r]
                                THEN "done" ELSE "dec_load"]
    /\ current' = [current EXCEPT ![r] = 0]
    /\ UNCHANGED <<MaxConn, MaxConnSeen, active, Active, disconnect, BWeight, Performance, Routing, callVars, cfgVars, svcVars,
                   activeConnections, backend, reqHost, reqMethod, attempts, status, message, adminVars>>

\* handleRequest returns: the deferred monitor.EndConnection; the goroutine
\* is free for the next request
Finish(r) ==
    /\ pc[r] = "done"
    /\ activeConnections' = activeConnections - 1
    /\ pc' = [pc EXCEPT ![r] = "idle"]
    /\ backend' = [backend EXCEPT ![r] = None]
    /\ current' = [current EXCEPT ![r] = 0]
    /\ status' = [status EXCEPT ![r] = 0]
    /\ message' = [message EXCEPT ![r] = None]
    /\ UNCHANGED <<backendVars, Routing, callVars, cfgVars, svcVars, reqHost, reqMethod, attempts, adminVars>>

\* ---------------------------------------------------------- control plane
\* the backend of GetUpstream(up).GetBackends() whose ID is id, or None
FindBackend(up, id) ==
    IF ~UpstreamExists(up) THEN None
    ELSE IF id \in Range(GetBackends) THEN id ELSE None

\* grpcservice.Server.handleDisconnectBackend for a POST with one of the
\* given bodies: answer, then `go func(body)`
DisconnectRequest(bodies) ==
    /\ task = NoTask
    /\ \E body \in bodies :
          /\ adminResp' = 200
          /\ task' = body
    /\ UNCHANGED <<adminReq, perfTask>>
    /\ UNCHANGED <<backendVars, Routing, callVars, cfgVars, svcVars, activeConnections, reqVars>>

HandleDisconnectBackend == DisconnectRequest(DisconnectBodies)

\* a mark that is not confined to the target
MarkForDisconnectAll(b) == [x \in Backends |-> 1]

\* Backend.MarkForDisconnect: atomic.StoreInt32(&b.disconnect, 1)
MarkForDisconnect(b) == [disconnect EXCEPT ![b] = 1]

\* the spawned goroutine: json.Unmarshal, disconnectBackendAsync,
\* proxy.Server.DisconnectBackend
DisconnectTask ==
    /\ task # NoTask
    /\ task' = NoTask
    /\ IF ~task.valid THEN UNCHANGED disconnect
       ELSE IF task.upstream_id = "" \/ task.backend_id = "" THEN UNCHANGED disconnect
       ELSE LET b == FindBackend(task.upstream_id, task.backend_id)
            IN IF b = None THEN UNCHANGED disconnect
               ELSE disconnect' = MarkForDisconnect(b)
    /\ UNCHANGED <<Connections, MaxConn, MaxConnSeen, active, Active, BWeight, Performance, Routing, callVars, cfgVars, svcVars,
                   activeConnections, reqVars, adminResp, adminReq, perfTask>>

\* Backend.ClearDisconnectMark: atomic.StoreInt32(&b.disconnect, 0)
ClearDisconnectMark(b) ==
    /\ disconnect[b] = 1
    /\ disconnect' = [disconnect EXCEPT ![b] = 0]
    /\ UNCHANGED <<Connections, MaxConn, MaxConnSeen, active, Active, BWeight, Performance, Routing, callVars, cfgVars, svcVars,
                   activeConnections, reqVars, adminVars>>

\* grpcservice.Server.handleUpdateBackend for a PUT
HandleUpdateBackend ==
    /\ \E body \in UpdateBodies :
          /\ adminReq' = body
          /\ IF ~body.valid
             THEN /\ adminResp' = 400
                  /\ UNCHANGED MaxConn
             ELSE IF body.upstream_id = "" \/ body.backend_id = ""
             THEN /\ adminResp' = 400
                  /\ UNCHANGED MaxConn
             ELSE LET b == FindBackend(body.upstream_id, body.backend_id)
                  IN IF b = None
                     THEN /\ adminResp' = 404
                          /\ UNCHANGED MaxConn
                     ELSE /\ adminResp' = 200
                          /\ MaxConn' = [MaxConn EXCEPT ![b] = body.max_conn]
    /\ UNCHANGED <<Connections, MaxConnSeen, active, Active, disconnect, BWeight,
                   Performance, Routing, callVars, cfgVars, svcVars, activeConnections, reqVars, task,
                   perfTask>>

\* the store of handleUpdateBackend reaches the dispatcher goroutines: nothing
\* in the code orders it with their loads
MaxConnVisible(b) ==
    /\ MaxConnSeen[b] # MaxConn[b]
    /\ MaxConnSeen' = [MaxConnSeen EXCEPT ![b] = MaxConn[b]]
    /\ UNCHANGED <<Connections, MaxConn, active, Active, disconnect, BWeight,
                   Performance, Routing, callVars, cfgVars, svcVars, activeConnections, reqVars, adminVars>>

\* bodies of POST /api/v1/performance/report
ReportBodies ==
    {Malformed}
    \cup {[valid |-> TRUE, upstream |-> "default", backend_id |-> b, performance |-> p] :
             b \in {"A", "B", "zz"}, p \in {Busy, Calm}}
    \cup {[valid |-> TRUE, upstream |-> "default", backend_id |-> "A",
           performance |-> NilPerformance]}

\* grpcservice.Server.handleReportPerformance for a POST: read the body, answer
\* "Performance data accepted", then `go func(data)`
HandleReportPerformance ==
    /\ perfTask = NoTask
    /\ \E body \in ReportBodies :
          /\ adminResp' = 200
          /\ perfTask' = body
    /\ UNCHANGED <<task, adminReq>>
    /\ UNCHANGED <<backendVars, Routing, callVars, cfgVars, svcVars, activeConnections, reqVars>>

\* the spawned goroutine: json.Unmarshal, then for a complete report a
\* fmt.Printf of the figures; no field of the backend is written
ReportTask ==
    /\ perfTask # NoTask
    /\ perfTask' = NoTask
    /\ UNCHANGED Performance
    /\ UNCHANGED <<Connections, MaxConn, MaxConnSeen, active, Active, disconnect, BWeight>>
    /\ UNCHANGED <<Routing, callVars, cfgVars, svcVars, activeConnections, reqVars, task, adminResp, adminReq>>

Next ==
    \/ \E r \in Reqs : HandleRequest(r)
    \/ \E r \in Reqs : ProxyRequest(r)
    \/ \E r \in Reqs : UpstreamReturns(r)
    \/ \E r \in Reqs : UpstreamFails(r)
    \/ \E r \in Reqs : DecLoad(r)
    \/ \E r \in Reqs : DecCAS(r)
    \/ \E r \in Reqs : Finish(r)
    \/ HandleDisconnectBackend
    \/ DisconnectTask
    \/ \E b \in Backends : ClearDisconnectMark(b)

Spec == Init /\ [][Next]_vars

\* ------------------------------------------- traffic under the admin API
\* the dispatchers together with the update and the disconnect endpoint;
\* upstream "default" is configured with A active and B and C inactive
AdminReqs == 1..AdminCallers

InitAdminAPI ==
    /\ InitBackends({"A"}, WeightConfig, 1)
    /\ Routing = RoutingConfig
    /\ InitReqs(AdminReqs)
    /\ InitAdmin
    /\ InitCall
    /\ InitCfg
    /\ InitSvc

NextAdminAPI ==
    \/ \E r \in AdminReqs : HandleRequest(r)
    \/ \E r \in AdminReqs : ProxyRequest(r)
    \/ \E r \in AdminReqs : UpstreamReturns(r)
    \/ \E r \in AdminReqs : UpstreamFails(r)
    \/ \E r \in AdminReqs : DecLoad(r)
    \/ \E r \in AdminReqs : DecCAS(r)
    \/ \E r \in AdminReqs : Finish(r)
    \/ HandleDisconnectBackend
    \/ DisconnectTask
    \/ HandleUpdateBackend
    \/ \E b \in Backends : MaxConnVisible(b)

SpecAdminAPI == InitAdminAPI /\ [][NextAdminAPI]_vars

\* -------------------------------------------- the gauge under free callers
\* GaugeCallers goroutines call IncConnections and DecConnections on the
\* backends in any order and number
Callers == 1..GaugeCallers

GaugeBackends == {"A"}

InitGauge ==
    /\ InitBackends(GaugeBackends, WeightConfig, 1)
    /\ Routing = RoutingConfig
    /\ InitReqs(Callers)
    /\ InitAdmin
    /\ InitCall
    /\ InitCfg
    /\ InitSvc

CallInc(g, b) ==
    /\ pc[g] = "idle"
    /\ Connections[b] < MaxGauge
    /\ IncConnections(b)
    /\ UNCHANGED <<MaxConn, MaxConnSeen, active, Active, disconnect, BWeight, Performance, Routing, callVars, cfgVars, svcVars,
                   activeConnections, reqVars, adminVars>>

CallDec(g, b) ==
    /\ pc[g] = "idle"
    /\ pc' = [pc EXCEPT ![g] = "dec_load"]
    /\ backend' = [backend EXCEPT ![g] = b]
    /\ UNCHANGED <<backendVars, Routing, callVars, cfgVars, svcVars, activeConnections, reqHost, reqMethod, attempts, current, status,
                   message, adminVars>>

CallReturn(g) ==
    /\ pc[g] = "done"
    /\ pc' = [pc EXCEPT ![g] = "idle"]
    /\ backend' = [backend EXCEPT ![g] = None]
    /\ current' = [current EXCEPT ![g] = 0]
    /\ UNCHANGED <<backendVars, Routing, callVars, cfgVars, svcVars, activeConnections, reqHost, reqMethod, attempts, status, message,
                   adminVars>>

NextGauge ==
    \/ \E g \in Callers, b \in GaugeBackends : CallInc(g, b)
    \/ \E g \in Callers, b \in GaugeBackends : CallDec(g, b)
    \/ \E g \in Callers : DecLoad(g)
    \/ \E g \in Callers : DecCAS(g)
    \/ \E g \in Callers : CallReturn(g)

SpecGauge == InitGauge /\ [][NextGauge]_vars

\* ------------------------------------------- one selection on drawn inputs
\* the balancers as functions of the backends' state: every combination of
\* gauge, limit, flags, weights and snapshot within the bounds, one request
SelWeights ==
    {[b \in Backends |-> 1],
     [b \in Backends |-> IF b = "B" THEN 2 ELSE 1],
     [b \in Backends |-> IF b = "A" THEN 2 ELSE 1],
     [b \in Backends |-> IF b = "A" THEN -1 ELSE 1]}

SelPerformance ==
    {[b \in Backends |-> NilPerformance],
     [b \in Backends |-> IF b = "A" THEN Busy ELSE NilPerformance]}

InitSelect ==
    /\ Connections \in [Backends -> 0..SelConn]
    /\ MaxConn \in [Backends -> 0..MaxLimit]
    /\ MaxConnSeen = MaxConn
    /\ Active \in [Backends -> BOOLEAN]
    /\ Active["C"]
    /\ active = [b \in Backends |-> IF Active[b] THEN 1 ELSE 0]
    /\ disconnect \in [Backends -> {0, 1}]
    /\ disconnect["C"] = 0
    /\ BWeight \in SelWeights
    /\ Performance \in SelPerformance
    /\ \E lb \in LBTypes : Routing = RoutingOnly(lb)
    /\ InitReqs({1})
    /\ InitAdmin
    /\ InitCall
    /\ InitCfg
    /\ InitSvc

NextSelect == \E r \in {1} : HandleRequest(r)

SpecSelect == InitSelect /\ [][NextSelect]_vars

\* ------------------------------------------ single backend with max_conn 2
LimitReqs == 1..LimitCallers

ScenarioLimit == 2

InitLimit ==
    /\ InitBackends({"A"}, WeightConfig, ScenarioLimit)
    /\ Routing = RoutingOnly(LeastConnectionsWeight)
    /\ InitReqs(LimitReqs)
    /\ InitAdmin
    /\ InitCall
    /\ InitCfg
    /\ InitSvc

NextLimit ==
    \/ \E r \in LimitReqs : HandleRequest(r)
    \/ \E r \in LimitReqs : ProxyRequest(r)
    \/ \E r \in LimitReqs : UpstreamReturns(r)
    \/ \E r \in LimitReqs : UpstreamFails(r)
    \/ \E r \in LimitReqs : DecLoad(r)
    \/ \E r \in LimitReqs : DecCAS(r)
    \/ \E r \in LimitReqs : Finish(r)

SpecLimit == InitLimit /\ [][NextLimit]_vars

\* ------------------------------------------------------- drain under load
\* backends A and B under least_connections_weight with the default
\* max_conn, B carrying the higher weight; the control plane disconnects B
DrainReqs == 1..DrainCallers

DrainBody == [valid |-> TRUE, upstream_id |-> "default", backend_id |-> "B"]

InitDrain ==
    /\ InitBackends({"A", "B"}, WeightConfig, DefaultMaxConn)
    /\ Routing = RoutingOnly(LeastConnectionsWeight)
    /\ InitReqs(DrainReqs)
    /\ InitAdmin
    /\ InitCall
    /\ InitCfg
    /\ InitSvc

DisconnectB == DisconnectRequest({DrainBody})

NextDrain ==
    \/ \E r \in DrainReqs : HandleRequest(r)
    \/ \E r \in DrainReqs : ProxyRequestFrom(r, {"localhost:8080"}, {"POST"})
    \/ \E r \in DrainReqs : UpstreamReturns(r)
    \/ \E r \in DrainReqs : UpstreamFails(r)
    \/ \E r \in DrainReqs : DecLoad(r)
    \/ \E r \in DrainReqs : DecCAS(r)
    \/ \E r \in DrainReqs : Finish(r)
    \/ DisconnectB
    \/ DisconnectTask

\* the goroutine of a dispatch that has a backend runs on: the upstream call
\* returns or times out, DecConnections and the deferred calls are scheduled
\* (its steps are enabled one at a time, so one condition per goroutine);
\* the spawned goroutine of the disconnect endpoint is scheduled
DrainFairness ==
    /\ \A r \in DrainReqs :
          WF_vars(ProxyRequestFrom(r, {"localhost:8080"}, {"POST"}) \/ UpstreamReturns(r) \/ UpstreamFails(r)
                  \/ DecLoad(r) \/ DecCAS(r) \/ Finish(r))
    /\ WF_vars(DisconnectTask)

SpecDrain == InitDrain /\ [][NextDrain]_vars /\ DrainFairness

\* ------------------------------------------------- performance reports
\* A and B behind the performance policy, one dispatcher at a time per caller,
\* and the report endpoint with its goroutine
ReportReqs == 1..ReportCallers

InitReport ==
    /\ InitBackends({"A", "B"}, WeightConfig, DefaultMaxConn)
    /\ Routing = RoutingOnly(PerformanceLCW)
    /\ InitReqs(ReportReqs)
    /\ InitAdmin
    /\ InitCall
    /\ InitCfg
    /\ InitSvc

NextReport ==
    \/ \E r \in ReportReqs : HandleRequest(r)
    \/ \E r \in ReportReqs : ProxyRequestFrom(r, {"localhost:8080"}, {"POST"})
    \/ \E r \in ReportReqs : UpstreamReturns(r)
    \/ \E r \in ReportReqs : UpstreamFails(r)
    \/ \E r \in ReportReqs : DecLoad(r)
    \/ \E r \in ReportReqs : DecCAS(r)
    \/ \E r \in ReportReqs : Finish(r)
    \/ HandleReportPerformance
    \/ ReportTask

\* the goroutine spawned by the handler is scheduled and runs to its end
ReportFairness == WF_vars(ReportTask)

SpecReport == InitReport /\ [][NextReport]_vars /\ ReportFairness

\* ------------------------------------------------------- findRoutingRule
\* findRoutingRule as a function of the routing section and the request path:
\* request paths of up to MaxPathLen characters after the leading slash, and
\* every routing section made of a rule "default" for "/" or "/w", a rule
\* "api" for "/a" and a rule "v1" for "/aa", each present or absent
PathChars == {"a", "w"}

RoutePaths ==
    {PathRoot}
    \cup UNION {{PathRoot \o s : s \in [1..n -> PathChars]} : n \in 1..MaxPathLen}

PathAA == <<"/", "a", "a">>

RulePaths ==
    [n \in {"default", "api", "v1"} |->
        CASE n = "default" -> {PathRoot, PathW}
          [] n = "api" -> {PathA}
          [] n = "v1" -> {PathAA}]

RouteRule(path) ==
    [Path |-> path, Upstream |-> "default",
     LoadBalancer |-> LeastConnectionsWeight, Protocols |-> EmptyMap]

RouteConfigs ==
    UNION {{[n \in names |-> RouteRule(f[n])] :
               f \in {g \in [names -> RoutePaths] : \A n \in names : g[n] \in RulePaths[n]}} :
           names \in SUBSET {"default", "api", "v1"}}

InitRoute ==
    /\ InitBackends({"A"}, WeightConfig, DefaultMaxConn)
    /\ Routing \in RouteConfigs
    /\ InitReqs({})
    /\ InitAdmin
    /\ callArg \in RoutePaths
    /\ callRet = <<>>
    /\ InitCfg
    /\ InitSvc

\* rule := s.findRoutingRule(path)
CallFindRoutingRule ==
    /\ callRet = <<>>
    /\ \E rule \in findRoutingRule(callArg) : callRet' = <<rule>>
    /\ UNCHANGED <<backendVars, Routing, callArg, cfgVars, svcVars, activeConnections, reqVars, adminVars>>

NextRoute == CallFindRoutingRule

SpecRoute == InitRoute /\ [][NextRoute]_vars

\* ------------------------------------------------- serial weight policy
\* requests served one after the other under the weight policy: each is
\* selected, proxied and completed before the next arrives, so every selection
\* sees all gauges at 0; callRet lists the backends returned so far. The
\* weights are drawn from 1..MaxWeight, all three backends active and far
\* below their limit
WeightConfigs == [Backends -> 1..MaxWeight]

InitWeight ==
    /\ \E w \in WeightConfigs : InitBackends(Backends, w, DefaultMaxConn)
    /\ Routing = RoutingOnly(Weight)
    /\ InitReqs({})
    /\ InitAdmin
    /\ callArg = None
    /\ callRet = <<>>
    /\ InitCfg
    /\ InitSvc

\* backend := balancer.SelectBackend(backends, ctx) of one serial request
CallWeightSelect ==
    /\ Len(callRet) < WeightCalls
    /\ \E b \in SelectBackend(GetBalancer(Weight), GetBackends) :
          callRet' = Append(callRet, b)
    /\ UNCHANGED <<backendVars, Routing, callArg, cfgVars, svcVars, activeConnections, reqVars, adminVars>>

NextWeight == CallWeightSelect

SpecWeight == InitWeight /\ [][NextWeight]_vars

\* ------------------------------------------------------ ip_hash traffic
\* every request comes from the one client callArg; A, B and C stay active,
\* unmarked and far below their limit, so the eligible set never changes
\* while the gauges move with the traffic
ClientIPs == {"203.0.113.7", "198.51.100.9"}

IPHashReqs == 1..IPHashCallers

InitIPHash ==
    /\ InitBackends(Backends, WeightConfig, DefaultMaxConn)
    /\ Routing = RoutingOnly(IPHash)
    /\ InitReqs(IPHashReqs)
    /\ InitAdmin
    /\ callArg \in ClientIPs
    /\ callRet = None
    /\ InitCfg
    /\ InitSvc

NextIPHash ==
    \/ \E r \in IPHashReqs : HandleRequest(r)
    \/ \E r \in IPHashReqs : ProxyRequestFrom(r, {"localhost:8080"}, {"GET"})
    \/ \E r \in IPHashReqs : UpstreamReturns(r)
    \/ \E r \in IPHashReqs : UpstreamFails(r)
    \/ \E r \in IPHashReqs : DecLoad(r)
    \/ \E r \in IPHashReqs : DecCAS(r)
    \/ \E r \in IPHashReqs : Finish(r)

SpecIPHash == InitIPHash /\ [][NextIPHash]_vars

\* ------------------------------------------------------ upstream retries
\* A and B behind least_connections; the clients send idempotent and
\* non-idempotent methods and the upstream call may fail and be retried
RetryMethods == {"GET", "HEAD", "POST"}

RetryReqs == 1..RetryCallers

InitRetry ==
    /\ InitBackends({"A", "B"}, WeightConfig, DefaultMaxConn)
    /\ Routing = RoutingOnly(LeastConnections)
    /\ InitReqs(RetryReqs)
    /\ InitAdmin
    /\ InitCall
    /\ InitCfg
    /\ InitSvc

NextRetry ==
    \/ \E r \in RetryReqs : HandleRequest(r)
    \/ \E r \in RetryReqs : ProxyRequestFrom(r, {"localhost:8080"}, RetryMethods)
    \/ \E r \in RetryReqs : UpstreamRetry(r)
    \/ \E r \in RetryReqs : UpstreamReturns(r)
    \/ \E r \in RetryReqs : UpstreamFails(r)
    \/ \E r \in RetryReqs : DecLoad(r)
    \/ \E r \in RetryReqs : DecCAS(r)
    \/ \E r \in RetryReqs : Finish(r)

SpecRetry == InitRetry /\ [][NextRetry]_vars

\* ------------------------------------------------ configuration replacement
\* what the configuration file says at start: upstream default with A active
\* and B, C inactive, one rule for "/"; A's max_conn is written (1) or left
\* out (0), B's weight likewise
FileDoc(m) ==
    [Server |-> ServerSection,
     SSL |-> SSLSection,
     Backends |->
        [u \in UpstreamNames |->
            [i \in 1..Len(BackendOrder) |->
                [ID |-> BackendOrder[i], Host |-> "127.0.0.1",
                 Port |-> BackendPort(BackendOrder[i]),
                 Weight |-> 1,
                 Active |-> BackendOrder[i] = "A",
                 MaxConn |-> IF BackendOrder[i] = "A" THEN m ELSE 1]]],
     Routing |-> RoutingOnly(LeastConnectionsWeight)]

ConfigFiles == {FileDoc(m) : m \in 0..MaxLimit}

\* the configuration with one field of backend b replaced
WithMaxConn(cfg, b, m) ==
    LET old == cfg.Backends["default"]
    IN [cfg EXCEPT !.Backends["default"] =
           [i \in 1..Len(old) |->
               IF old[i].ID = b THEN [old[i] EXCEPT !.MaxConn = m] ELSE old[i]]]

WithActive(cfg, act) ==
    LET old == cfg.Backends["default"]
    IN [cfg EXCEPT !.Backends["default"] =
           [i \in 1..Len(old) |-> [old[i] EXCEPT !.Active = old[i].ID \in act]]]

WithHost(cfg, b, h) ==
    LET old == cfg.Backends["default"]
    IN [cfg EXCEPT !.Backends["default"] =
           [i \in 1..Len(old) |->
               IF old[i].ID = b THEN [old[i] EXCEPT !.Host = h] ELSE old[i]]]

WithPort(cfg, b, p) ==
    LET old == cfg.Backends["default"]
    IN [cfg EXCEPT !.Backends["default"] =
           [i \in 1..Len(old) |->
               IF old[i].ID = b THEN [old[i] EXCEPT !.Port = p] ELSE old[i]]]

BaseBody == setDefaults(FileDoc(1))

\* bodies that pass validateConfig: the loaded configuration sent back, the
\* same with another max_conn for A, and one that moves the traffic from A
\* to B under another policy
\* BaseBody with a second upstream, spare, of one backend
SpareBody ==
    [BaseBody EXCEPT !.Backends = [u \in {"default", "spare"} |->
                                      IF u = "default" THEN BaseBody.Backends[u]
                                      ELSE <<[ID |-> "S", Host |-> "127.0.0.1",
                                              Port |-> 8084, Weight |-> 100,
                                              Active |-> TRUE, MaxConn |-> DefaultMaxConn]>>]]

ValidBodies ==
    {setDefaults(doc) : doc \in ConfigFiles}
    \cup {WithMaxConn(BaseBody, "A", MaxLimit + 1)}
    \cup {[WithActive(BaseBody, {"B"}) EXCEPT !.Routing = RoutingOnly(LeastConnections)]}
    \cup {[BaseBody EXCEPT !.Server.ReadTimeout = 60, !.Server.WriteTimeout = 60]}
    \cup {SpareBody}

\* bodies that validateConfig refuses, one for each of its checks
InvalidBodies ==
    {[BaseBody EXCEPT !.Server.Port = 0],
     [BaseBody EXCEPT !.Server.Port = 65536],
     [BaseBody EXCEPT !.SSL = [Enabled |-> TRUE, CertFile |-> "", KeyFile |-> "k.pem"]],
     [BaseBody EXCEPT !.SSL = [Enabled |-> TRUE, CertFile |-> "c.pem", KeyFile |-> ""]],
     [BaseBody EXCEPT !.Backends = [u \in {"default", "spare"} |->
                                       IF u = "default" THEN BaseBody.Backends[u] ELSE <<>>]],
     WithHost(BaseBody, "B", ""),
     WithPort(BaseBody, "B", 0),
     WithPort(BaseBody, "B", 65536),
     [BaseBody EXCEPT !.Routing["default"].Upstream = "gone"],
     [BaseBody EXCEPT !.Routing["default"].Upstream = ""]}

ConfigBodies == {Malformed} \cup ValidBodies \cup InvalidBodies

\* the file after an os.WriteFile that failed once the file was opened
TruncatedFile == [truncated |-> TRUE]

\* Manager.notifyWatchers: select { case watcher <- config: default: } on a
\* channel of capacity 1
notifyWatchers(cfg) == IF Len(watcher) < 1 THEN Append(watcher, cfg) ELSE watcher

\* the same loop over the channels of the other subscribers; a send on a
\* closed channel panics
notifyChans(cfg) ==
    [c \in DOMAIN chans |->
        IF c \in Range(watchers) /\ ~chans[c].closed THEN TrySend(chans[c], cfg)
        ELSE chans[c]]

SendsOnClosed == \E c \in Range(watchers) : chans[c].closed

\* grpcservice.Server.updateConfig for a PUT /api/v1/config: decode the body,
\* Manager.UpdateConfig (validateConfig, saveConfig, m.config = config,
\* notifyWatchers) under the manager's lock, answer
UpdateConfigFrom(bodies) ==
    /\ \E body \in bodies :
          /\ cfgReq' = body
          /\ IF body = Malformed
             THEN /\ adminResp' = 400
                  /\ UNCHANGED <<config, Routing, file, watcher, chans, panicked>>
             ELSE IF ~validateConfig(body)
             THEN /\ adminResp' = 500
                  /\ UNCHANGED <<config, Routing, file, watcher, chans, panicked>>
             ELSE \/ /\ file' \in {file, TruncatedFile}
                     /\ adminResp' = 500
                     /\ UNCHANGED <<config, Routing, watcher, chans, panicked>>
                  \/ /\ file' = Marshal(body)
                     /\ config' = body
                     /\ Routing' = body.Routing
                     /\ watcher' = notifyWatchers(body)
                     /\ chans' = notifyChans(body)
                     /\ panicked' = IF SendsOnClosed THEN "send on closed channel"
                                    ELSE panicked
                     /\ adminResp' = 200
    /\ UNCHANGED <<backendVars, callVars, activeConnections, reqVars, task, adminReq,
                   perfTask, fasthttpServer, upstreamMgr, rangeState, watchers, monitor>>

HandleUpdateConfig == UpdateConfigFrom(ConfigBodies)

\* a reload that builds the upstream anew from the configuration, with fresh
\* Backend objects whose gauges start at zero
WatchConfigTaskRecreate ==
    /\ watcher # <<>>
    /\ watcher' = Tail(watcher)
    /\ fasthttpServer' = [ReadTimeout |-> Head(watcher).Server.ReadTimeout,
                          WriteTimeout |-> Head(watcher).Server.WriteTimeout,
                          Concurrency |-> Head(watcher).Server.MaxConn]
    /\ Connections' = [b \in Backends |-> 0]
    /\ UNCHANGED <<MaxConn, MaxConnSeen, active, Active, disconnect, BWeight,
                   Performance, Routing, callVars, activeConnections, reqVars, adminVars,
                   config, file, cfgReq, svcVars>>

\* the orders in which a range over a map can visit the keys in S
Orders(S) == {f \in [1..Cardinality(S) -> S] : \A i, j \in DOMAIN f : i # j => f[i] # f[j]}

RECURSIVE CreateAll(_, _)
CreateAll(mgr, order) ==
    IF order = <<>> THEN mgr
    ELSE CreateAll(CreateUpstream(mgr, Head(order)), Tail(order))

\* Server.initUpstreams on the registry: the range over cfg.Backends visits
\* the upstream names in an unspecified order, registers each name that is
\* new and returns at the first that CreateUpstream reports as existing, so
\* the new names visited before that one are registered and the others not
initUpstreams(mgr) ==
    LET cfgNames == IF config.Backends = Live THEN DOMAIN mgr.names
                    ELSE DOMAIN config.Backends
        known == cfgNames \cap DOMAIN mgr.names
        new == cfgNames \ DOMAIN mgr.names
    IN UNION {{CreateAll(mgr, order) : order \in Orders(created)} :
                 created \in {c \in SUBSET new : known = {} => c = new}}

\* proxy.Server.watchConfig receives newConfig and calls updateConfig: the
\* three server settings, then initUpstreams on s.config.GetConfig(), which
\* synchronises the atomic flag of that configuration's Backend objects and
\* returns at CreateUpstream's "already exists"; a registered upstream keeps
\* the objects it has
WatchConfigTask ==
    /\ watcher # <<>>
    /\ watcher' = Tail(watcher)
    /\ fasthttpServer' = [ReadTimeout |-> Head(watcher).Server.ReadTimeout,
                          WriteTimeout |-> Head(watcher).Server.WriteTimeout,
                          Concurrency |-> Head(watcher).Server.MaxConn]
    /\ IF config.Backends = Live
       THEN active' = [b \in Backends |-> IF Active[b] THEN 1 ELSE 0]
       ELSE UNCHANGED active
    /\ upstreamMgr' \in initUpstreams(upstreamMgr)
    /\ UNCHANGED <<Connections, MaxConn, MaxConnSeen, Active, disconnect, BWeight,
                   Performance, Routing, callVars, activeConnections, reqVars, adminVars,
                   config, file, cfgReq, rangeState, watchers, chans, monitor, panicked>>

ConfigReqs == 1..ConfigCallers

\* NewManager loads the file: setDefaults, validateConfig; NewServer registers
\* the loaded Backend objects
InitLoadedAt(docs, R, levels) ==
    /\ \E doc \in docs :
          LET loaded == setDefaults(doc)
              entry(b) == CHOOSE e \in Range(loaded.Backends["default"]) : e.ID = b
          IN /\ validateConfig(loaded)
             /\ file = doc
             /\ config = [loaded EXCEPT !.Backends = Live]
             /\ Routing = loaded.Routing
             /\ \E n \in levels : Connections = [b \in Backends |-> IF b = "A" THEN n ELSE 0]
             /\ MaxConn = [b \in Backends |-> entry(b).MaxConn]
             /\ MaxConnSeen = MaxConn
             /\ Active = [b \in Backends |-> entry(b).Active]
             /\ active = [b \in Backends |-> IF entry(b).Active THEN 1 ELSE 0]
             /\ disconnect = [b \in Backends |-> 0]
             /\ BWeight = [b \in Backends |-> entry(b).Weight]
             /\ Performance = [b \in Backends |-> NilPerformance]
    /\ watcher = <<>>
    /\ cfgReq = NoTask
    /\ fasthttpServer = [ReadTimeout |-> 30, WriteTimeout |-> 30, Concurrency |-> 10000000]
    /\ InitReqs(R)
    /\ InitAdmin
    /\ InitCall
    /\ InitSvc

\* the server right after NewServer: no request in flight
InitLoaded(docs, R) == InitLoadedAt(docs, R, {0})

InitConfig == InitLoaded(ConfigFiles, ConfigReqs)

NextConfig ==
    \/ \E r \in ConfigReqs : HandleRequest(r)
    \/ \E r \in ConfigReqs : ProxyRequestFrom(r, {"localhost:8080"}, {"GET"})
    \/ \E r \in ConfigReqs : UpstreamReturns(r)
    \/ \E r \in ConfigReqs : UpstreamFails(r)
    \/ \E r \in ConfigReqs : DecLoad(r)
    \/ \E r \in ConfigReqs : DecCAS(r)
    \/ \E r \in ConfigReqs : Finish(r)
    \/ HandleUpdateConfig
    \/ WatchConfigTask

SpecConfig == InitConfig /\ [][NextConfig]_vars

\* ------------------------------------------------------ client address
\* getClientIP and setProxyHeaders as functions of the inbound request. An
\* address is its four octets; a header value is the list of its
\* comma-separated elements, the empty list for an absent header.
IPv4(a, b, c, d) == [octets |-> <<a, b, c, d>>]

\* an element that is no address, such as "unknown"
NotAnIP == [text |-> "unknown"]

Loopback == IPv4(127, 0, 0, 1)

InnerProxy == IPv4(10, 0, 0, 5)

ClientAddr == IPv4(198, 51, 100, 2)

OuterPeer == IPv4(203, 0, 113, 9)

Addrs == {Loopback, InnerProxy, ClientAddr, OuterPeer}

\* server.trusted_proxies: "127.0.0.1/32", "10.0.0.0/8"
TrustedProxies == <<[net |-> IPv4(127, 0, 0, 1), bits |-> 32],
                    [net |-> IPv4(10, 0, 0, 0), bits |-> 8]>>

Pow2(n) == CASE n = 0 -> 1 [] n = 1 -> 2 [] n = 2 -> 4 [] n = 3 -> 8 [] n = 4 -> 16
             [] n = 5 -> 32 [] n = 6 -> 64 [] n = 7 -> 128 [] OTHER -> 256

\* net.ParseIP(ip) # nil
ParseIP(e) == e \in Addrs

\* net.IPNet.Contains: the address and the network agree on the mask's bits
Contains(cidr, ip) ==
    \A k \in 1..4 :
       LET n == IF cidr.bits >= 8 * k THEN 8
                ELSE IF cidr.bits <= 8 * (k - 1) THEN 0
                ELSE cidr.bits - 8 * (k - 1)
       IN ip.octets[k] \div Pow2(8 - n) = cidr.net.octets[k] \div Pow2(8 - n)

\* IsTrustedProxy(ip, trustedProxies)
IsTrustedProxy(ip, trustedProxies) ==
    /\ ParseIP(ip)
    /\ \E i \in DOMAIN trustedProxies : Contains(trustedProxies[i], ip)

\* the number of characters of an element's text
DecLen(n) == IF n < 10 THEN 1 ELSE IF n < 100 THEN 2 ELSE 3

TextLen(e) ==
    IF e \in Addrs
    THEN DecLen(e.octets[1]) + DecLen(e.octets[2]) + DecLen(e.octets[3]) + DecLen(e.octets[4]) + 3
    ELSE 7

\* strings.Index(xff, ","): the first comma follows the first element, and a
\* value of one element has none
IndexComma(xff) == IF Len(xff) >= 2 THEN TextLen(xff[1]) ELSE -1

\* Server.getClientIP: the real-IP header's value if the header is configured
\* and present; else the first X-Forwarded-For element if a comma follows it
\* and that element is a trusted proxy; else ctx.RemoteIP()
ServerGetClientIP(req) ==
    IF req.RealIPHeader # "" /\ req.realIP # <<>>
    THEN req.realIP[1]
    ELSE IF /\ req.xff # <<>>
            /\ IndexComma(req.xff) > 0
            /\ IsTrustedProxy(req.xff[1], TrustedProxies)
    THEN req.xff[1]
    ELSE req.peer

\* Server.setProxyHeaders: the outbound X-Forwarded-For and real-IP header
\* (existing + ", " + clientIP adds one element; an unconfigured real-IP
\* header leaves the inbound one in place)
setProxyHeaders(req) ==
    [xff |-> IF req.xff # <<>> THEN Append(req.xff, ServerGetClientIP(req))
             ELSE <<ServerGetClientIP(req)>>,
     realIP |-> IF req.RealIPHeader # "" THEN <<ServerGetClientIP(req)>> ELSE req.realIP]

XFFElements == Addrs \cup {NotAnIP}

XFFValues == {<<>>} \cup {<<e>> : e \in XFFElements}
                    \cup {<<e, f>> : e \in XFFElements, f \in XFFElements}

HeaderRequests ==
    [RealIPHeader : {"X-Real-IP", ""},
     realIP : {<<>>, <<ClientAddr>>},
     xff : XFFValues,
     peer : Addrs]

InitHeaders ==
    /\ InitBackends({"A"}, WeightConfig, DefaultMaxConn)
    /\ Routing = RoutingConfig
    /\ InitReqs({})
    /\ InitAdmin
    /\ callArg \in HeaderRequests
    /\ callRet = <<>>
    /\ InitCfg
    /\ InitSvc

\* clientIP := s.ServerGetClientIP(ctx)
CallGetClientIP ==
    /\ callRet = <<>>
    /\ callRet' = <<[clientIP |-> ServerGetClientIP(callArg)]>>
    /\ UNCHANGED <<backendVars, Routing, callArg, cfgVars, svcVars, activeConnections, reqVars, adminVars>>

\* s.setProxyHeaders(ctx, backend)
CallSetProxyHeaders ==
    /\ callRet = <<>>
    /\ callRet' = <<setProxyHeaders(callArg)>>
    /\ UNCHANGED <<backendVars, Routing, callArg, cfgVars, svcVars, activeConnections, reqVars, adminVars>>

NextHeaders ==
    \/ CallGetClientIP
    \/ CallSetProxyHeaders

SpecHeaders == InitHeaders /\ [][NextHeaders]_vars

\* ------------------------------------------------- the limit predicate
\* Backend.IsConnectionLimitReached called between increments and decrements
\* of the gauge, on a backend whose MaxConn is negative, zero or positive
\* (the limit test: MaxConn 2, then 0, then -1)
LimitValues == {-1, 0, 1, ScenarioLimit}

InitAtLimit ==
    /\ \E m \in LimitValues : InitBackends(GaugeBackends, WeightConfig, m)
    /\ Routing = RoutingConfig
    /\ InitReqs(Callers)
    /\ InitAdmin
    /\ callArg = None
    /\ callRet = <<>>
    /\ InitCfg
    /\ InitSvc

\* backend.IsConnectionLimitReached()
CallIsConnectionLimitReached(b) ==
    /\ callRet = <<>>
    /\ callArg' = b
    /\ callRet' = <<IsConnectionLimitReached(b)>>
    /\ UNCHANGED <<backendVars, Routing, cfgVars, svcVars, activeConnections, reqVars, adminVars>>

\* the caller has printed the result
ReturnIsConnectionLimitReached ==
    /\ callRet # <<>>
    /\ callRet' = <<>>
    /\ UNCHANGED <<backendVars, Routing, callArg, cfgVars, svcVars, activeConnections, reqVars, adminVars>>

NextAtLimit ==
    \/ \E g \in Callers, b \in GaugeBackends : CallInc(g, b)
    \/ \E g \in Callers, b \in GaugeBackends : CallDec(g, b)
    \/ \E g \in Callers : DecLoad(g)
    \/ \E g \in Callers : DecCAS(g)
    \/ \E g \in Callers : CallReturn(g)
    \/ \E b \in GaugeBackends : CallIsConnectionLimitReached(b)
    \/ ReturnIsConnectionLimitReached

SpecAtLimit == InitAtLimit /\ [][NextAtLimit]_vars

\* ------------------------------------------------------- error paths
\* dispatches under a configuration whose backends are all inactive, or of
\* which one or two are active: every way handleRequest and proxyRequest end
ErrorPathConfigs == {{}, {"A"}, {"A", "B"}}

InitErrorPaths ==
    /\ \E act \in ErrorPathConfigs : InitBackends(act, WeightConfig, 1)
    /\ Routing = RoutingConfig
    /\ InitReqs(Reqs)
    /\ InitAdmin
    /\ InitCall
    /\ InitCfg
    /\ InitSvc

NextErrorPaths ==
    \/ \E r \in Reqs : HandleRequest(r)
    \/ \E r \in Reqs : ProxyRequest(r)
    \/ \E r \in Reqs : UpstreamReturns(r)
    \/ \E r \in Reqs : UpstreamFails(r)
    \/ \E r \in Reqs : DecLoad(r)
    \/ \E r \in Reqs : DecCAS(r)
    \/ \E r \in Reqs : Finish(r)

SpecErrorPaths == InitErrorPaths /\ [][NextErrorPaths]_vars

\* ------------------------------------------------------ the active flag
\* concurrent Backend.SetActive calls on the backends of one upstream; a
\* call is its two stores, and `current` holds the caller's local `val`
ActiveCallers == 2

ActiveReqs == 1..ActiveCallers

ActiveBackends == {"A", "B"}

InitActive ==
    /\ InitBackends({"A"}, WeightConfig, DefaultMaxConn)
    /\ Routing = RoutingConfig
    /\ InitReqs(ActiveReqs)
    /\ InitAdmin
    /\ InitCall
    /\ InitCfg
    /\ InitSvc

\* SetActive: var val int32; if active { val = 1 }; atomic.StoreInt32(&b.active, val)
SetActiveStore(g, b, val) ==
    /\ pc[g] = "idle"
    /\ active' = [active EXCEPT ![b] = val]
    /\ pc' = [pc EXCEPT ![g] = "set_field"]
    /\ backend' = [backend EXCEPT ![g] = b]
    /\ current' = [current EXCEPT ![g] = val]
    /\ UNCHANGED <<Connections, MaxConn, MaxConnSeen, Active, disconnect, BWeight, Performance,
                   Routing, callVars, cfgVars, svcVars, activeConnections, reqHost, reqMethod, attempts,
                   status, message, adminVars>>

\* SetActive: b.Active = active, and the call returns
SetActiveField(g) ==
    /\ pc[g] = "set_field"
    /\ Active' = [Active EXCEPT ![backend[g]] = (current[g] = 1)]
    /\ pc' = [pc EXCEPT ![g] = "idle"]
    /\ backend' = [backend EXCEPT ![g] = None]
    /\ current' = [current EXCEPT ![g] = 0]
    /\ UNCHANGED <<Connections, MaxConn, MaxConnSeen, active, disconnect, BWeight, Performance,
                   Routing, callVars, cfgVars, svcVars, activeConnections, reqHost, reqMethod, attempts,
                   status, message, adminVars>>

NextActive ==
    \/ \E g \in ActiveReqs, b \in ActiveBackends, val \in {0, 1} : SetActiveStore(g, b, val)
    \/ \E g \in ActiveReqs : SetActiveField(g)

SpecActive == InitActive /\ [][NextActive]_vars

\* ------------------------------------------------ registry under reload
\* the watcher goroutine's updateConfig taken step by step next to a
\* dispatcher: initUpstreams ranges over the upstream names of the
\* configuration, and CreateUpstream writes the upstreams slice and then the
\* names map, under Server.mu, which handleRequest does not take
WatchGoroutine == "watch"

RegistryDispatchers == {"d1", "d2"}

RegistryBodies == {BaseBody, SpareBody}

InitRegistry == InitLoaded({FileDoc(1)}, RegistryDispatchers \cup {WatchGoroutine})

\* watchConfig: newConfig := <-watcher; s.mu.Lock(); updateConfig sets the
\* three settings; initUpstreams: cfg := s.config.GetConfig() and the range begins
WatchReceive ==
    /\ panicked = None
    /\ pc[WatchGoroutine] = "idle"
    /\ watcher # <<>>
    /\ watcher' = Tail(watcher)
    /\ fasthttpServer' = [ReadTimeout |-> Head(watcher).Server.ReadTimeout,
                          WriteTimeout |-> Head(watcher).Server.WriteTimeout,
                          Concurrency |-> Head(watcher).Server.MaxConn]
    /\ rangeState' = [left |-> DOMAIN config.Backends, name |-> None]
    /\ pc' = [pc EXCEPT ![WatchGoroutine] = "range"]
    /\ UNCHANGED <<backendVars, Routing, callVars, activeConnections, backend, reqHost,
                   reqMethod, attempts, current, status, message, adminVars, config, file,
                   cfgReq, upstreamMgr, watchers, chans, monitor, panicked>>

\* initUpstreams: the next name of the range; CreateUpstream's check of
\* um.names returns the "already exists" error, which ends initUpstreams, or
\* lets the creation proceed; after the last name initUpstreams returns nil
\* and watchConfig unlocks
InitUpstreamsVisit ==
    /\ panicked = None
    /\ pc[WatchGoroutine] = "range"
    /\ IF rangeState.left = {}
       THEN /\ rangeState' = NoTask
            /\ pc' = [pc EXCEPT ![WatchGoroutine] = "idle"]
       ELSE \E name \in rangeState.left :
               IF name \in DOMAIN upstreamMgr.names
               THEN /\ rangeState' = NoTask
                    /\ pc' = [pc EXCEPT ![WatchGoroutine] = "idle"]
               ELSE /\ rangeState' = [left |-> rangeState.left \ {name}, name |-> name]
                    /\ pc' = [pc EXCEPT ![WatchGoroutine] = "append"]
    /\ UNCHANGED <<backendVars, Routing, callVars, activeConnections, backend, reqHost,
                   reqMethod, attempts, current, status, message, adminVars, cfgVars,
                   upstreamMgr, watchers, chans, monitor, panicked>>

\* CreateUpstream: um.upstreams = append(um.upstreams, upstream)
CreateUpstreamAppend ==
    /\ panicked = None
    /\ pc[WatchGoroutine] = "append"
    /\ upstreamMgr' = [upstreamMgr EXCEPT !.upstreams = Append(@, rangeState.name)]
    /\ pc' = [pc EXCEPT ![WatchGoroutine] = "store_name"]
    /\ UNCHANGED <<backendVars, Routing, callVars, activeConnections, backend, reqHost,
                   reqMethod, attempts, current, status, message, adminVars, cfgVars,
                   rangeState, watchers, chans, monitor, panicked>>

\* CreateUpstream: um.names[name] = len(um.upstreams) - 1, then SetLoadBalancer
\* and the range goes on
CreateUpstreamStore ==
    /\ panicked = None
    /\ pc[WatchGoroutine] = "store_name"
    /\ upstreamMgr' = [upstreamMgr EXCEPT
                         !.names = [n \in DOMAIN @ \cup {rangeState.name} |->
                                      IF n = rangeState.name THEN Len(upstreamMgr.upstreams)
                                      ELSE @[n]]]
    /\ pc' = [pc EXCEPT ![WatchGoroutine] = "range"]
    /\ UNCHANGED <<backendVars, Routing, callVars, activeConnections, backend, reqHost,
                   reqMethod, attempts, current, status, message, adminVars, cfgVars,
                   rangeState, watchers, chans, monitor, panicked>>

\* the watcher goroutine is about to write, or has half written, the registry
RegistryWriting == pc[WatchGoroutine] \in {"append", "store_name"}

\* handleRequest up to the rule: StartConnection, findRoutingRule; the only
\* rule of these configurations matches every path
RegistryRoute(d) ==
    /\ panicked = None
    /\ pc[d] = "idle"
    /\ activeConnections' = activeConnections + 1
    /\ pc' = [pc EXCEPT ![d] = "get_upstream"]
    /\ UNCHANGED <<backendVars, Routing, callVars, cfgVars, svcVars, backend, reqHost,
                   reqMethod, attempts, current, status, message, adminVars>>

\* handleRequest from s.upstreamMgr.GetUpstream(rule.Upstream) to the
\* selection. The lookup reads um.names and um.upstreams without a lock;
\* next to a write of the watcher goroutine it is a data race, whose outcomes
\* are the upstream, nil, or the runtime's fatal "concurrent map read and map
\* write"
RegistryGetUpstream(d) ==
    /\ panicked = None
    /\ pc[d] = "get_upstream"
    /\ \E found \in IF RegistryWriting THEN {"upstream", "nil", "fatal"}
                    ELSE IF UpstreamExists(Routing["default"].Upstream) THEN {"upstream"}
                    ELSE {"nil"} :
          IF found = "fatal"
          THEN /\ panicked' = "concurrent map read and map write"
               /\ UNCHANGED reqVars
          ELSE /\ UNCHANGED panicked
               /\ IF found = "nil"
                  THEN ErrorReturn(d, StatusServiceUnavailable, MsgUnavailable)
                  ELSE IF Len(GetBackends) = 0
                  THEN ErrorReturn(d, StatusServiceUnavailable, MsgUnavailable)
                  ELSE \E b \in SelectBackend(GetBalancer(Routing["default"].LoadBalancer),
                                              GetBackends) :
                          IF b = None
                          THEN ErrorReturn(d, StatusServiceUnavailable, MsgLimit)
                          ELSE /\ pc' = [pc EXCEPT ![d] = "selected"]
                               /\ backend' = [backend EXCEPT ![d] = b]
                               /\ UNCHANGED <<reqHost, reqMethod, attempts, current, status,
                                              message>>
    /\ UNCHANGED <<backendVars, Routing, callVars, cfgVars, activeConnections, adminVars,
                   upstreamMgr, rangeState, watchers, chans, monitor>>

NextRegistry ==
    \/ UpdateConfigFrom(RegistryBodies)
    \/ WatchReceive
    \/ InitUpstreamsVisit
    \/ CreateUpstreamAppend
    \/ CreateUpstreamStore
    \/ \E d \in RegistryDispatchers : RegistryRoute(d)
    \/ \E d \in RegistryDispatchers : RegistryGetUpstream(d)
    \/ \E d \in RegistryDispatchers : ProxyRequestFrom(d, {"localhost:8080"}, {"GET"})
    \/ \E d \in RegistryDispatchers : UpstreamReturns(d)
    \/ \E d \in RegistryDispatchers : UpstreamFails(d)
    \/ \E d \in RegistryDispatchers : DecLoad(d)
    \/ \E d \in RegistryDispatchers : DecCAS(d)
    \/ \E d \in RegistryDispatchers : Finish(d)

SpecRegistry == InitRegistry /\ [][NextRegistry]_vars

\* ------------------------------------------------ manager subscriptions
\* config.Manager's subscriber list next to UpdateConfig: WatchConfig,
\* StopWatching and UpdateConfig each hold Manager.mu from entry to return
MaxWatchers == 2

ManagerBodies ==
    {BaseBody, [BaseBody EXCEPT !.Server.ReadTimeout = 60, !.Server.WriteTimeout = 60]}

InitManager == InitLoaded({FileDoc(1)}, ConfigReqs)

\* Manager.WatchConfig: ch := make(chan *types.Config, 1);
\* m.watchers = append(m.watchers, ch); return ch
WatchConfig ==
    /\ panicked = None
    /\ Cardinality(DOMAIN chans) < MaxWatchers
    /\ LET ch == Cardinality(DOMAIN chans) + 1
       IN  /\ chans' = [c \in DOMAIN chans \cup {ch} |->
                           IF c = ch THEN NewChan ELSE chans[c]]
           /\ watchers' = Append(watchers, ch)
    /\ UNCHANGED <<backendVars, Routing, callVars, activeConnections, reqVars, adminVars,
                   cfgVars, upstreamMgr, rangeState, monitor, panicked>>

\* a StopWatching that closes the channel and leaves it in m.watchers
StopWatchingKeep(ch) ==
    /\ panicked = None
    /\ ch \in Range(watchers)
    /\ chans' = [chans EXCEPT ![ch].closed = TRUE]
    /\ UNCHANGED <<backendVars, Routing, callVars, activeConnections, reqVars, adminVars,
                   cfgVars, upstreamMgr, rangeState, watchers, monitor, panicked>>

\* Manager.StopWatching(ch): the first element of m.watchers equal to ch is
\* removed from the slice and closed; a channel that is not listed is left alone
StopWatching(ch) ==
    /\ panicked = None
    /\ ch \in Range(watchers)
    /\ watchers' = SelectSeq(watchers, LAMBDA w : w # ch)
    /\ chans' = [chans EXCEPT ![ch].closed = TRUE]
    /\ UNCHANGED <<backendVars, Routing, callVars, activeConnections, reqVars, adminVars,
                   cfgVars, upstreamMgr, rangeState, monitor, panicked>>

\* the subscriber's side: newConfig := <-ch takes the buffered configuration
ReceiveConfig(ch) ==
    /\ panicked = None
    /\ ch \in DOMAIN chans
    /\ chans[ch].buf # <<>>
    /\ chans' = [chans EXCEPT ![ch].buf = Tail(@)]
    /\ UNCHANGED <<backendVars, Routing, callVars, activeConnections, reqVars, adminVars,
                   cfgVars, upstreamMgr, rangeState, watchers, monitor, panicked>>

NextManager ==
    \/ UpdateConfigFrom(ManagerBodies)
    \/ WatchConfigTask
    \/ WatchConfig
    \/ \E ch \in 1..MaxWatchers : StopWatching(ch)
    \/ \E ch \in 1..MaxWatchers : ReceiveConfig(ch)

SpecManager == InitManager /\ [][NextManager]_vars

\* ------------------------------------------------ performance monitor
\* PerformanceMonitor's goroutines next to Stop: samplingLoop, reportingLoop,
\* the generateReport goroutines that reportingLoop spawns, and one caller
\* of Stop (Server.Stop); nothing in the repository calls SetReportCallback,
\* so the channels have no receiver
MonitorCap == 2

MaxReportTasks == 2

MonitorGoroutines == {"sampling", "reporting", "stop"}

InitMonitor ==
    /\ InitBackends({"A"}, WeightConfig, DefaultMaxConn)
    /\ Routing = RoutingConfig
    /\ InitReqs(MonitorGoroutines)
    /\ InitAdmin
    /\ InitCall
    /\ InitCfg
    /\ InitSvc

\* select { case ch <- v: default: } on a channel of the monitor: a closed
\* channel panics, a full one drops the value
MonitorSend(field, v) ==
    IF monitor[field].closed
    THEN /\ panicked' = "send on closed channel"
         /\ UNCHANGED monitor
    ELSE /\ UNCHANGED panicked
         /\ monitor' = [monitor EXCEPT ![field].buf =
                           IF Len(@) < MonitorCap THEN Append(@, v) ELSE @]

\* samplingLoop: the select takes case <-ticker.C; a select with several
\* ready cases picks any of them, so a cancelled context does not disable it
SamplingTick ==
    /\ panicked = None
    /\ pc["sampling"] = "idle"
    /\ pc' = [pc EXCEPT !["sampling"] = "tick"]
    /\ UNCHANGED <<backendVars, Routing, callVars, activeConnections, backend, reqHost,
                   reqMethod, attempts, current, status, message, adminVars, cfgVars,
                   svcVars>>

\* samplingLoop: the non-blocking send of the sample on pm.sampleChan
SamplingSend ==
    /\ panicked = None
    /\ pc["sampling"] = "tick"
    /\ MonitorSend("sampleChan", activeConnections)
    /\ pc' = [pc EXCEPT !["sampling"] = "idle"]
    /\ UNCHANGED <<backendVars, Routing, callVars, activeConnections, backend, reqHost,
                   reqMethod, attempts, current, status, message, adminVars, cfgVars,
                   upstreamMgr, rangeState, watchers, chans>>

\* samplingLoop and reportingLoop: case <-pm.ctx.Done(): return
LoopDone(g) ==
    /\ panicked = None
    /\ pc[g] = "idle"
    /\ monitor.cancelled
    /\ pc' = [pc EXCEPT ![g] = "done"]
    /\ UNCHANGED <<backendVars, Routing, callVars, activeConnections, backend, reqHost,
                   reqMethod, attempts, current, status, message, adminVars, cfgVars,
                   svcVars>>

\* reportingLoop: case <-ticker.C: go pm.generateReport()
ReportingTick ==
    /\ panicked = None
    /\ pc["reporting"] = "idle"
    /\ monitor.reports < MaxReportTasks
    /\ monitor' = [monitor EXCEPT !.reports = @ + 1]
    /\ UNCHANGED <<backendVars, Routing, callVars, activeConnections, reqVars, adminVars,
                   cfgVars, upstreamMgr, rangeState, watchers, chans, panicked>>

\* generateReport in its own goroutine: the non-blocking send of the report
\* on pm.reportChan
GenerateReport ==
    /\ panicked = None
    /\ monitor.reports > 0
    /\ IF monitor.reportChan.closed
       THEN /\ panicked' = "send on closed channel"
            /\ UNCHANGED monitor
       ELSE /\ UNCHANGED panicked
            /\ monitor' = [monitor EXCEPT
                             !.reports = @ - 1,
                             !.reportChan.buf = IF Len(@) < MonitorCap
                                                THEN Append(@, Performance["A"]) ELSE @]
    /\ UNCHANGED <<backendVars, Routing, callVars, activeConnections, reqVars, adminVars,
                   cfgVars, upstreamMgr, rangeState, watchers, chans>>

\* Stop: pm.cancel()
StopCancel ==
    /\ panicked = None
    /\ pc["stop"] = "idle"
    /\ monitor' = [monitor EXCEPT !.cancelled = TRUE]
    /\ pc' = [pc EXCEPT !["stop"] = "close_sample"]
    /\ UNCHANGED <<backendVars, Routing, callVars, activeConnections, backend, reqHost,
                   reqMethod, attempts, current, status, message, adminVars, cfgVars,
                   upstreamMgr, rangeState, watchers, chans, panicked>>

\* Stop: close(pm.sampleChan)
StopCloseSample ==
    /\ panicked = None
    /\ pc["stop"] = "close_sample"
    /\ monitor' = [monitor EXCEPT !.sampleChan.closed = TRUE]
    /\ pc' = [pc EXCEPT !["stop"] = "close_report"]
    /\ UNCHANGED <<backendVars, Routing, callVars, activeConnections, backend, reqHost,
                   reqMethod, attempts, current, status, message, adminVars, cfgVars,
                   upstreamMgr, rangeState, watchers, chans, panicked>>

\* Stop: close(pm.reportChan) and return
StopCloseReport ==
    /\ panicked = None
    /\ pc["stop"] = "close_report"
    /\ monitor' = [monitor EXCEPT !.reportChan.closed = TRUE]
    /\ pc' = [pc EXCEPT !["stop"] = "done"]
    /\ UNCHANGED <<backendVars, Routing, callVars, activeConnections, backend, reqHost,
                   reqMethod, attempts, current, status, message, adminVars, cfgVars,
                   upstreamMgr, rangeState, watchers, chans, panicked>>

NextMonitor ==
    \/ SamplingTick
    \/ SamplingSend
    \/ \E g \in {"sampling", "reporting"} : LoopDone(g)
    \/ ReportingTick
    \/ GenerateReport
    \/ StopCancel
    \/ StopCloseSample
    \/ StopCloseReport

SpecMonitor == InitMonitor /\ [][NextMonitor]_vars

\* ------------------------------------------------ the gauge, finitely many calls
\* the callers of the gauge, each making at most MaxOps calls of
\* IncConnections or DecConnections; attempts[g] counts the calls g has begun.
\* The Go scheduler runs every runnable goroutine, which is weak fairness of
\* each caller's steps inside DecConnections
MaxOps == 2

InitGaugeFinite == InitGauge

FiniteInc(g, b) ==
    /\ pc[g] = "idle"
    /\ attempts[g] < MaxOps
    /\ IncConnections(b)
    /\ attempts' = [attempts EXCEPT ![g] = @ + 1]
    /\ UNCHANGED <<MaxConn, MaxConnSeen, active, Active, disconnect, BWeight, Performance,
                   Routing, callVars, cfgVars, svcVars, activeConnections, pc, backend,
                   reqHost, reqMethod, current, status, message, adminVars>>

FiniteDec(g, b) ==
    /\ pc[g] = "idle"
    /\ attempts[g] < MaxOps
    /\ pc' = [pc EXCEPT ![g] = "dec_load"]
    /\ backend' = [backend EXCEPT ![g] = b]
    /\ attempts' = [attempts EXCEPT ![g] = @ + 1]
    /\ UNCHANGED <<backendVars, Routing, callVars, cfgVars, svcVars, activeConnections,
                   reqHost, reqMethod, current, status, message, adminVars>>

\* DecConnections has returned to its caller
FiniteReturn(g) ==
    /\ pc[g] = "done"
    /\ pc' = [pc EXCEPT ![g] = "returned"]
    /\ UNCHANGED <<backendVars, Routing, callVars, cfgVars, svcVars, activeConnections,
                   backend, reqHost, reqMethod, attempts, current, status, message,
                   adminVars>>

\* the caller goes on to its next call
FiniteNext(g) ==
    /\ pc[g] = "returned"
    /\ pc' = [pc EXCEPT ![g] = "idle"]
    /\ backend' = [backend EXCEPT ![g] = None]
    /\ UNCHANGED <<backendVars, Routing, callVars, cfgVars, svcVars, activeConnections,
                   reqHost, reqMethod, attempts, current, status, message, adminVars>>

NextGaugeFinite ==
    \/ \E g \in Callers, b \in GaugeBackends : FiniteInc(g, b)
    \/ \E g \in Callers, b \in GaugeBackends : FiniteDec(g, b)
    \/ \E g \in Callers : DecLoad(g)
    \/ \E g \in Callers : DecCAS(g)
    \/ \E g \in Callers : FiniteReturn(g)
    \/ \E g \in Callers : FiniteNext(g)

SpecGaugeFair ==
    /\ InitGaugeFinite
    /\ [][NextGaugeFinite]_vars
    /\ \A g \in Callers : /\ WF_vars(DecLoad(g))
                          /\ WF_vars(DecCAS(g))
                          /\ WF_vars(FiniteReturn(g))

\* ------------------------------------------------ limits as loaded
\* the server loaded from a file that gives backend A max_conn 0 or 1, at a
\* moment when A carries a drawn number of requests of dispatchers that are
\* not modelled one by one, and NumReq dispatchers that are
GaugeLevels == {0, DefaultMaxConn - 2, DefaultMaxConn - 1}

InitAsLoaded == InitLoadedAt(ConfigFiles, Reqs, GaugeLevels)

NextAsLoaded ==
    \/ \E r \in Reqs : HandleRequest(r)
    \/ \E r \in Reqs : ProxyRequest(r)
    \/ \E r \in Reqs : UpstreamReturns(r)
    \/ \E r \in Reqs : UpstreamFails(r)
    \/ \E r \in Reqs : DecLoad(r)
    \/ \E r \in Reqs : DecCAS(r)
    \/ \E r \in Reqs : Finish(r)

SpecAsLoaded == InitAsLoaded /\ [][NextAsLoaded]_vars

\* ------------------------------------------------ policy choice
\* determineLBType and GetBalancer as functions of the request's headers and
\* of the matched rule, both drawn; callRet collects the detected tag and
\* then the balancer that handleRequest ends up with
UpgradeValues == {"", "websocket", "WebSocket"}

AcceptValues == {"", "text/event-stream", "text/html"}

\* rules with and without overrides, with known and unknown policy names
PolicyRules ==
    {[Protocols |-> EmptyMap, LoadBalancer |-> Weight],
     [Protocols |-> EmptyMap, LoadBalancer |-> "round_robin"],
     [Protocols |-> [p \in {"websocket", "sse"} |->
                        IF p = "websocket" THEN IPHash ELSE LeastConnections],
      LoadBalancer |-> LeastConnectionsWeight],
     [Protocols |-> [p \in {"https"} |-> PerformanceLCW], LoadBalancer |-> Weight],
     [Protocols |-> [p \in {"http"} |-> "round_robin"], LoadBalancer |-> Weight],
     [Protocols |-> [p \in {"sse"} |-> Weight], LoadBalancer |-> IPHash]}

InitPolicy ==
    /\ InitBackends({"A"}, WeightConfig, DefaultMaxConn)
    /\ Routing = RoutingConfig
    /\ InitReqs({})
    /\ InitAdmin
    /\ callArg \in [Upgrade : UpgradeValues, Accept : AcceptValues, TLS : BOOLEAN,
                    rule : PolicyRules]
    /\ callRet = <<>>
    /\ InitCfg
    /\ InitSvc

\* protocol := s.detectProtocol(ctx)
CallDetectProtocol ==
    /\ callRet = <<>>
    /\ callRet' = <<detectProtocol(callArg.Upgrade, callArg.Accept, callArg.TLS)>>
    /\ UNCHANGED <<backendVars, Routing, callArg, cfgVars, svcVars, activeConnections,
                   reqVars, adminVars>>

\* the rest of determineLBType, then balancer := s.lbFactory.GetBalancer(lbType)
\* with handleRequest's fallback for a nil balancer
CallGetBalancer ==
    /\ Len(callRet) = 1
    /\ callRet' = Append(callRet, GetBalancer(determineLBType(callArg.rule, callRet[1])))
    /\ UNCHANGED <<backendVars, Routing, callArg, cfgVars, svcVars, activeConnections,
                   reqVars, adminVars>>

NextPolicy ==
    \/ CallDetectProtocol
    \/ CallGetBalancer

SpecPolicy == InitPolicy /\ [][NextPolicy]_vars

\* ------------------------------------------------ weight policy, weight 0
\* one call of WeightBalancer.SelectBackend on drawn inputs: every choice of
\* which backends are active and of weights from 0 to MaxZeroWeight, all gauges at 0
MaxZeroWeight == 2

InitWeightZero ==
    /\ \E act \in SUBSET Backends, w \in [Backends -> 0..MaxZeroWeight] :
          InitBackends(act, w, DefaultMaxConn)
    /\ Routing = RoutingOnly(Weight)
    /\ InitReqs({})
    /\ InitAdmin
    /\ callArg = None
    /\ callRet = <<>>
    /\ InitCfg
    /\ InitSvc

\* backend := balancer.SelectBackend(upstream.GetBackends(), ctx)
CallWeightOnce ==
    /\ callRet = <<>>
    /\ \E b \in WeightSelect(GetBackends) : callRet' = <<b>>
    /\ UNCHANGED <<backendVars, Routing, callArg, cfgVars, svcVars, activeConnections,
                   reqVars, adminVars>>

NextWeightZero == CallWeightOnce

SpecWeightZero == InitWeightZero /\ [][NextWeightZero]_vars

\* ================================================================ properties

\* C1: for every backend, whatever the interleaving of IncConnections and
\* DecConnections calls, more decrements than increments included, every
\* value GetConnections can return is at least 0
C1_NonNegativeGauge == \A b \in Backends : GetConnections(b) >= 0

\* two DecConnections calls raced for the last connection: the gauge is 0 and
\* a caller that loaded 1 is about to compare-and-swap
C1_Witness ==
    \E g \in DOMAIN pc :
        /\ pc[g] = "dec_cas"
        /\ current[g] = 1
        /\ Connections[backend[g]] = 0

\* C2: when no dispatch routed to a backend is still between its selection and
\* the end of its DecConnections, whether the upstream call succeeded or
\* failed, the backend's gauge is 0
C2_BalancedAccounting ==
    \A b \in Backends :
        (\A r \in DOMAIN pc :
            backend[r] = b => pc[r] \notin {"selected", "inflight", "dec_load", "dec_cas"})
        => GetConnections(b) = 0

\* two concurrent dispatches on A have returned, one with the upstream's answer
\* and one with Bad Gateway
C2_Witness ==
    \E r1, r2 \in DOMAIN pc :
        /\ pc[r1] = "done" /\ backend[r1] = "A" /\ status[r1] = StatusOK
        /\ pc[r2] = "done" /\ backend[r2] = "A" /\ status[r2] = StatusBadGateway
        /\ Connections["A"] = 0

\* C3: whatever the policy, a selection never returns a backend that at that
\* moment has max_conn > 0 and connections >= max_conn
C3_LimitFiltering ==
    [][\A r \in DOMAIN pc :
          (pc[r] = "idle" /\ pc'[r] = "selected")
          => ~(MaxConn[backend'[r]] > 0
               /\ Connections[backend'[r]] >= MaxConn[backend'[r]])]_vars

\* a backend was returned although a less loaded candidate, active and not
\* marked, stood at its limit
C3_Witness ==
    \E r \in DOMAIN pc :
        /\ pc[r] = "selected"
        /\ \E b \in Range(GetBackends) :
              /\ b # backend[r]
              /\ disconnect[b] = 0
              /\ MaxConn[b] > 0
              /\ Connections[b] >= MaxConn[b]
              /\ Connections[b] < Connections[backend[r]]

\* C4: each of the five policies returns none or a member of the candidate
\* slice that is active, not marked for disconnect and not at its limit
C4_PolicyEligibility ==
    [][\A r \in DOMAIN pc :
          (pc[r] = "idle" /\ pc'[r] # "idle")
          => \/ pc'[r] = "done" /\ backend'[r] = None
             \/ /\ pc'[r] = "selected"
                /\ backend'[r] \in Range(GetBackends)
                /\ active[backend'[r]] = 1
                /\ disconnect[backend'[r]] = 0
                /\ ~(MaxConn[backend'[r]] > 0
                     /\ Connections[backend'[r]] >= MaxConn[backend'[r]])]_vars

\* C was returned from three candidates of which A, the least loaded, is
\* marked and B is at its limit
C4_Witness ==
    \E r \in DOMAIN pc :
        /\ pc[r] = "selected" /\ backend[r] = "C"
        /\ Range(GetBackends) = Backends
        /\ disconnect["A"] = 1 /\ Connections["A"] < Connections["C"]
        /\ disconnect["B"] = 0 /\ MaxConn["B"] > 0 /\ Connections["B"] >= MaxConn["B"]

\* C5: while a backend's disconnect mark is set no selection returns it; it
\* can be returned again only after ClearDisconnectMark
C5_DrainProgression ==
    [][\A r \in DOMAIN pc :
          (pc[r] = "idle" /\ pc'[r] = "selected") => disconnect[backend'[r]] = 0]_vars

\* a request was refused although no candidate holds a connection: every
\* candidate is marked
C5_Witness ==
    \E r \in DOMAIN pc :
        /\ pc[r] = "done" /\ message[r] = MsgLimit
        /\ Len(GetBackends) > 0
        /\ \A b \in Range(GetBackends) :
              disconnect[b] = 1 /\ Connections[b] = 0

\* C6: a request in flight is issued to the host:port of the backend selected
\* for it, the backend whose gauge the dispatch incremented and will decrement
C6_IssuedToSelectedBackend ==
    \A r \in DOMAIN pc : pc[r] = "inflight" => DialAddr(r) = Addr(backend[r])

\* C7: one backend with max_conn 2. A request arriving while two are in flight
\* on it is answered 503 with the connection-limit message and leaves the gauge
\* alone; a request arriving while the gauge is below 2 is selected for the
\* backend, which is the state proxyRequest starts from
C7_ThirdRequestRefused ==
    [][\A r \in DOMAIN pc :
          (pc[r] = "idle" /\ pc'[r] # "idle")
          => /\ Cardinality({q \in DOMAIN pc : pc[q] = "inflight" /\ backend[q] = "A"}) = 2
                => /\ pc'[r] = "done"
                   /\ status'[r] = StatusServiceUnavailable
                   /\ message'[r] = MsgLimit
                   /\ Connections' = Connections
             /\ Connections["A"] < MaxConn["A"]
                => /\ pc'[r] = "selected"
                   /\ backend'[r] = "A"]_vars

\* the third request holds its 503 while, one of the two having completed, a
\* new request has been selected and the other is still in flight
C7_Witness ==
    \E r1, r2, r3 \in DOMAIN pc :
        /\ pc[r3] = "done" /\ status[r3] = StatusServiceUnavailable
        /\ message[r3] = MsgLimit
        /\ pc[r2] = "inflight" /\ backend[r2] = "A"
        /\ pc[r1] = "selected" /\ backend[r1] = "A"
        /\ Connections["A"] = 1
        /\ MaxConn["A"] = 2

\* C8: when a backend's gauge is above its max_conn, the excess is at most the
\* number of dispatches that passed the limit check and hold a connection on it
C8_SoftLimitExcess ==
    \A b \in Backends :
        (MaxConn[b] > 0 /\ Connections[b] > MaxConn[b])
        => Connections[b] - MaxConn[b]
              <= Cardinality({r \in DOMAIN pc :
                                 backend[r] = b
                                 /\ pc[r] \in {"inflight", "dec_load", "dec_cas"}})

\* two dispatchers passed the check of a backend with max_conn 1 that no
\* admin request ever touched, and both incremented
C8_Witness ==
    /\ adminResp = 0
    /\ task = NoTask
    /\ \E b \in Backends :
          /\ MaxConn[b] = 1
          /\ Connections[b] = 2
          /\ \A r \in DOMAIN pc : pc[r] = "inflight" /\ backend[r] = b

\* C9: A and B under least_connections_weight. Once B is marked, every request
\* is selected for A; a request in flight on B runs to its upstream's answer;
\* B's gauge becomes 0 and stays 0
C9_DrainUnderLoad ==
    /\ [][\A r \in DOMAIN pc :
             (disconnect["B"] = 1 /\ pc[r] = "idle" /\ pc'[r] # "idle")
             => (pc'[r] = "selected" /\ backend'[r] = "A")]_vars
    /\ \A r \in DrainReqs :
          (disconnect["B"] = 1 /\ pc[r] = "inflight" /\ backend[r] = "B")
          ~> (pc[r] = "done" /\ backend[r] = "B"
              /\ status[r] \in {StatusOK, StatusBadGateway})
    /\ (disconnect["B"] = 1) ~> [](Connections["B"] = 0)

\* B is marked with a request in flight on it while a new request has been
\* selected for A, whose connections-per-weight score is the higher one
C9_Witness ==
    \E r1, r2 \in DOMAIN pc :
        /\ disconnect["B"] = 1
        /\ pc[r1] = "inflight" /\ backend[r1] = "B"
        /\ pc[r2] = "selected" /\ backend[r2] = "A"
        /\ Connections["A"] * BWeight["B"] > Connections["B"] * BWeight["A"]

\* C10: the disconnect endpoint answers success before the mark is set, and
\* the spawned task, run for a backend id configured in the named upstream,
\* leaves that backend marked
C10_DrainApplied ==
    [][/\ (task = NoTask /\ task' # NoTask)
          => (adminResp' = 200 /\ disconnect' = disconnect)
       /\ (/\ task # NoTask
           /\ task' = NoTask
           /\ task.valid
           /\ UpstreamExists(task.upstream_id)
           /\ task.backend_id \in Backends)
          => disconnect'[task.backend_id] = 1]_vars

\* C11: update_backend answers an error exactly when the upstream or the
\* backend id is not configured; for every backend configured in the upstream,
\* active or not, marked or not, it stores the given max_conn and answers
\* success
C11_UpdateBackendResult ==
    [][adminReq' # adminReq
       => IF /\ adminReq'.valid
             /\ UpstreamExists(adminReq'.upstream_id)
             /\ adminReq'.backend_id \in Backends
          THEN /\ adminResp' = 200
               /\ MaxConn'[adminReq'.backend_id] = adminReq'.max_conn
          ELSE /\ adminResp' # 200
               /\ MaxConn' = MaxConn]_vars

C14_FrameEffect ==
    [][/\ (task = NoTask /\ task' # NoTask)
          => /\ <<Connections, MaxConn, active, Active, disconnect>>'
                   = <<Connections, MaxConn, active, Active, disconnect>>
             /\ reqVars' = reqVars
       /\ (task # NoTask /\ task' = NoTask)
          => /\ <<Connections, MaxConn, active, Active>>'
                   = <<Connections, MaxConn, active, Active>>
             /\ reqVars' = reqVars
             /\ \A b \in Backends :
                   disconnect'[b] # disconnect[b]
                   => (task.valid /\ b = task.backend_id /\ disconnect'[b] = 1)
       /\ (adminReq' # adminReq)
          => /\ <<Connections, active, Active, disconnect>>'
                   = <<Connections, active, Active, disconnect>>
             /\ reqVars' = reqVars
             /\ \A b \in Backends :
                   MaxConn'[b] # MaxConn[b]
                   => (b = adminReq'.backend_id /\ MaxConn'[b] = adminReq'.max_conn)]_vars

\* a request is still in flight on A after A was marked and its max_conn was
\* set to 0
C14_Witness ==
    \E r \in DOMAIN pc :
        /\ pc[r] = "inflight" /\ backend[r] = "A"
        /\ Connections["A"] = 1
        /\ disconnect["A"] = 1
        /\ MaxConn["A"] = 0
        /\ task = NoTask

\* C13: a report accepted for an existing backend leads to a state where the
\* backend's snapshot is the reported one, so that CalculateUtilization and the
\* performance policy read the reported figures
C13_ReportApplied ==
    \A b \in Backends : \A p \in {Busy, Calm} :
        (perfTask = [valid |-> TRUE, upstream |-> "default", backend_id |-> b,
                     performance |-> p]
         /\ FindBackend("default", b) # None)
        ~> (Performance[b] = p)

\* C15: a request refused with 503 carries the connection-limit message only
\* when every candidate was left out by its limit alone; when a candidate was
\* left out because it is marked for draining the message is the generic one
C15_LimitMessage ==
    [][\A r \in DOMAIN pc :
          (/\ pc[r] = "idle" /\ pc'[r] = "done"
           /\ status'[r] = StatusServiceUnavailable)
          => /\ message'[r] = MsgLimit
                => \A b \in Range(GetBackends) :
                      IsConnectionLimitReached(b) /\ ~ShouldDisconnect(b)
             /\ (\E b \in Range(GetBackends) : ShouldDisconnect(b))
                => message'[r] = MsgUnavailable]_vars

\* C16: the rule findRoutingRule returns is, among the rules whose path is a
\* prefix of the request path, one with the longest path; with no such rule
\* it is the rule named "default"; with neither it is nil (answered 404)
C16_LongestPrefix ==
    Len(callRet) > 0
    => LET matching == {n \in DOMAIN Routing : HasPrefix(callArg, Routing[n].Path)}
       IN IF matching # {}
          THEN /\ callRet[1] \in matching
               /\ \A n \in matching :
                     Len(Routing[n].Path) <= Len(Routing[callRet[1]].Path)
          ELSE IF "default" \in DOMAIN Routing THEN callRet[1] = "default"
          ELSE callRet[1] = None

\* C17: under the weight policy, all backends eligible, after a number of
\* serial requests that is a multiple of the total weight every backend has
\* received its weight's share of them, to within 5% of the requests
C17_WeightedShare ==
    LET n == Len(callRet)
        total == SumWeight(BackendOrder, 1)
        count(b) == Cardinality({i \in 1..n : callRet[i] = b})
        diff(b) == count(b) * total - n * BWeight[b]
    IN (n > 0 /\ n % total = 0)
       => \A b \in Backends :
             /\ 20 * diff(b) <= n * total
             /\ 20 * diff(b) >= -(n * total)

\* C18: with the eligible set fixed, all requests of one client under ip_hash
\* are given the same backend, however the gauges changed between the
\* selections
C18_IPHashStable ==
    \A r1, r2 \in DOMAIN pc :
        (backend[r1] # None /\ backend[r2] # None) => backend[r1] = backend[r2]

\* C19: under least_connections_weight the backend returned has the least
\* connections/weight among the eligible candidates, a weight of 0 or less
\* counting as 1: no eligible candidate has a strictly lower score
C19_WeightedScoreMinimal ==
    [][\A r \in DOMAIN pc :
          (/\ pc[r] = "idle" /\ pc'[r] = "selected"
           /\ Routing["default"].LoadBalancer = LeastConnectionsWeight)
          => LET w(b) == IF BWeight[b] <= 0 THEN 1 ELSE BWeight[b]
                 ret == backend'[r]
             IN \A a \in Range(GetBackends) :
                   (/\ active[a] = 1 /\ disconnect[a] = 0
                    /\ ~(MaxConn[a] > 0 /\ Connections[a] >= MaxConn[a]))
                   => Connections[a] * w(ret) >= Connections[ret] * w(a)]_vars

\* B, with weight 2 and two connections, was returned although A, with
\* weight 1, is eligible with one connection
C19_Witness ==
    \E r \in DOMAIN pc :
        /\ pc[r] = "selected" /\ backend[r] = "B"
        /\ Routing["default"].LoadBalancer = LeastConnectionsWeight
        /\ active["A"] = 1 /\ Active["A"] /\ disconnect["A"] = 0 /\ MaxConn["A"] = 0
        /\ Connections["A"] = 1 /\ BWeight["A"] = 1
        /\ Connections["B"] = 2 /\ BWeight["B"] = 2

C21_InvalidConfigRejected ==
    [][(cfgReq' # cfgReq /\ cfgReq' # Malformed)
       => LET c == cfgReq'
              badBackend(e) == e.Host = "" \/ e.Port < 1 \/ e.Port > 65535
              invalid ==
                  \/ c.Server.Port < 1 \/ c.Server.Port > 65535
                  \/ c.SSL.Enabled /\ (c.SSL.CertFile = "" \/ c.SSL.KeyFile = "")
                  \/ \E u \in DOMAIN c.Backends :
                        \/ c.Backends[u] = <<>>
                        \/ \E i \in DOMAIN c.Backends[u] : badBackend(c.Backends[u][i])
                  \/ \E n \in DOMAIN c.Routing :
                        c.Routing[n].Upstream \notin DOMAIN c.Backends
          IN /\ invalid
                => /\ adminResp' >= 400
                   /\ config' = config /\ Routing' = Routing
                   /\ file' = file
                   /\ watcher' = watcher
                   /\ backendVars' = backendVars
                   /\ fasthttpServer' = fasthttpServer
             /\ (~invalid /\ adminResp' # 200)
                => /\ config' = config /\ Routing' = Routing
                   /\ watcher' = watcher]_vars

\* a configuration with an invalid port was refused while a request was in
\* flight: the loaded configuration and the file are still the ones of the start
C21_Witness ==
    /\ cfgReq \in InvalidBodies
    /\ cfgReq.Server.Port = 65536
    /\ adminResp = 500
    /\ config.Backends = Live
    /\ file \in ConfigFiles
    /\ \E r \in DOMAIN pc : pc[r] = "inflight"

\* C22: replacing the configuration is one atomic publish: once
\* update_config(cfg) returned success and the proxy processed the
\* notification, every dispatch that selects a backend selects one that cfg
\* lists as active and below cfg's max_conn, under a rule of cfg, and a
\* dispatch is refused for the connection limit only when every active backend
\* of cfg is at cfg's limit; rule and backends never come from two
\* configurations.
C22_AtomicPublish ==
    [][(config.Backends # Live /\ watcher = <<>> /\ cfgVars' = cfgVars)
       => \A r \in DOMAIN pc :
            LET entries == config.Backends["default"]
                full(e) == e.MaxConn > 0 /\ Connections[e.ID] >= e.MaxConn
            IN /\ (pc[r] = "idle" /\ pc'[r] = "selected")
                    => \E i \in DOMAIN entries :
                          /\ entries[i].ID = backend'[r]
                          /\ entries[i].Active
                          /\ ~full(entries[i])
               /\ (pc[r] = "idle" /\ pc'[r] = "done" /\ message'[r] = MsgLimit)
                    => \A i \in DOMAIN entries : entries[i].Active => full(entries[i])]_vars

\* C23: a reload keeps the backend objects: an accepted configuration that
\* differs from the current one only in one backend's max_conn, and the
\* proxy's processing of the notification, leave every connections gauge and
\* every dispatch's backend as they are, and a dispatch in flight keeps its
\* backend until its decrement, which lowers exactly the gauge it raised.
C23_ReloadKeepsGauge ==
    [][LET onlyMaxConn(old, new) ==
               \E b \in Backends, m \in 0..(MaxLimit + 1) : new = WithMaxConn(old, b, m)
       IN /\ (cfgReq' # cfgReq /\ cfgReq' # Malformed /\ onlyMaxConn(Marshal(config), cfgReq'))
               => Connections' = Connections /\ backend' = backend
          /\ (watcher # <<>> /\ watcher' = Tail(watcher))
               => Connections' = Connections /\ backend' = backend
          /\ \A r \in DOMAIN pc :
                /\ (pc[r] \in {"inflight", "dec_load", "dec_cas"} /\ pc'[r] # "done")
                      => backend'[r] = backend[r]
                /\ (pc[r] = "dec_cas" /\ pc'[r] = "done")
                      => Connections' = [Connections EXCEPT ![backend[r]] = @ - 1]]_vars

\* a request is in flight on A, holding A's gauge at one, while the accepted
\* configuration that only raises A's max_conn waits in the watcher's channel
C23_Witness ==
    /\ cfgReq = WithMaxConn(BaseBody, "A", MaxLimit + 1)
    /\ adminResp = 200
    /\ file = Marshal(cfgReq)
    /\ watcher = <<cfgReq>>
    /\ MaxConn["A"] = 1
    /\ \E r \in DOMAIN pc : pc[r] = "inflight" /\ backend[r] = "A"
    /\ Connections["A"] = 1

\* C24: the round trip is a no-op: when the in-memory configuration is what
\* load produced from the file and update_config is called with that same
\* configuration, the file's content, the in-memory configuration, the
\* registry's backends and their counters and flags are all left as they were.
C24_RoundTrip ==
    [][(/\ file \in ConfigFiles
        /\ Marshal(config) = setDefaults(file)
        /\ cfgReq' # cfgReq
        /\ cfgReq' = setDefaults(file)
        /\ adminResp' = 200)
       => /\ file' = file
          /\ Marshal(config') = Marshal(config)
          /\ backendVars' = backendVars]_vars

\* C25: X-Forwarded-For is trusted only from trusted peers: for a request
\* without a real-IP header value, getClientIP returns the first
\* X-Forwarded-For element only if the TCP peer is inside a trusted-proxy
\* CIDR; from any other peer it returns the peer's address.
C25_TrustedPeerOnly ==
    (/\ callRet # <<>>
     /\ "clientIP" \in DOMAIN callRet[1]
     /\ callArg.realIP = <<>>)
    => IF callArg.xff # <<>> /\ IsTrustedProxy(callArg.peer, TrustedProxies)
       THEN callRet[1].clientIP \in {callArg.xff[1], callArg.peer}
       ELSE callRet[1].clientIP = callArg.peer

\* C26: the header chain: for a request from a trusted proxy that carries
\* the one-element X-Forwarded-For 198.51.100.2 and no real-IP header, the
\* outbound X-Forwarded-For is "198.51.100.2, <peer>" and the outbound
\* real-IP header is 198.51.100.2.
C26_HeaderChain ==
    (/\ callRet # <<>>
     /\ "xff" \in DOMAIN callRet[1]
     /\ callArg.RealIPHeader = "X-Real-IP"
     /\ callArg.realIP = <<>>
     /\ callArg.xff = <<ClientAddr>>
     /\ IsTrustedProxy(callArg.peer, TrustedProxies))
    => /\ callRet[1].xff = <<ClientAddr, callArg.peer>>
       /\ callRet[1].realIP = <<ClientAddr>>

\* C27: after any sequence of increments and decrements, a call of
\* at_connection_limit answers true exactly when max_conn is positive and
\* the gauge has reached it; with max_conn zero or negative it answers false
\* whatever the gauge.
C27_LimitPredicate ==
    [][(callRet = <<>> /\ callRet' # <<>>)
       => LET b == callArg'
          IN /\ callRet'[1] = (MaxConn[b] > 0 /\ Connections[b] >= MaxConn[b])
             /\ MaxConn[b] <= 0 => callRet'[1] = FALSE]_vars

\* the call answered true on a gauge that was raised above the limit of two
\* and lowered back onto it
C27_Witness ==
    /\ callRet = <<TRUE>>
    /\ MaxConn[callArg] = ScenarioLimit
    /\ Connections[callArg] = ScenarioLimit
    /\ \E g \in DOMAIN pc : pc[g] = "done" /\ backend[g] = callArg

\* C28: the disconnect endpoint validates before it accepts: a request whose
\* body is malformed JSON, or lacks upstream_id or backend_id, is answered
\* with 400, and the success answer is given only to a well-formed request.
C28_DisconnectValidation ==
    [][(task = NoTask /\ task' # NoTask)
       => LET wellFormed == IF task'.valid
                            THEN task'.upstream_id # "" /\ task'.backend_id # ""
                            ELSE FALSE
          IN /\ ~wellFormed => adminResp' = 400
             /\ adminResp' = 200 => wellFormed]_vars

\* C29: in every reachable state each backend's gauge is the number of
\* dispatches that have incremented it and not yet completed their decrement,
\* so a decrement never meets a gauge at zero and the saturating branch of
\* DecConnections absorbs nothing.
C29_GaugeCountsDispatches ==
    /\ \A b \in Backends :
          GetConnections(b) =
              Cardinality({r \in DOMAIN pc : backend[r] = b
                                             /\ pc[r] \notin {"idle", "selected", "done"}})
    /\ \A r \in DOMAIN pc :
          /\ pc[r] = "dec_load" => GetConnections(backend[r]) >= 1
          /\ pc[r] = "dec_cas" => current[r] >= 1

\* two dispatches share backend A: one has loaded the gauge at two and is
\* about to swap, the other is still in flight
C29_Witness ==
    \E r1 \in DOMAIN pc, r2 \in DOMAIN pc :
       /\ r1 # r2
       /\ backend[r1] = "A" /\ backend[r2] = "A"
       /\ pc[r1] = "dec_cas" /\ current[r1] = 2
       /\ pc[r2] = "inflight"
       /\ GetConnections("A") = 2

C31_FlagsAgree ==
    (\A g \in DOMAIN pc : pc[g] = "idle")
    => \A b \in Backends :
          /\ Active[b] <=> IsActive(b)
          /\ IsActive(b) => \E i \in DOMAIN GetBackends : GetBackends[i] = b

\* C33: the applied server settings follow the last accepted configuration:
\* after any sequence of successful update_config calls, whenever the proxy's
\* watcher has emptied its channel, the read timeout, write timeout and
\* concurrency it has applied are those of the configuration in memory.
C33_LastConfigApplied ==
    (config.Backends # Live /\ watcher = <<>>)
    => fasthttpServer = [ReadTimeout |-> config.Server.ReadTimeout,
                         WriteTimeout |-> config.Server.WriteTimeout,
                         Concurrency |-> config.Server.MaxConn]

\* C32: the registry that dispatchers read is never written in place: in no
\* reachable state is the reload about to write, or between its writes of,
\* the upstreams slice and the names map while a dispatch is at its
\* GetUpstream lookup.
C32_RegistryNotMutated ==
    ~(/\ RegistryWriting
      /\ \E d \in DOMAIN pc \ {WatchGoroutine} : pc[d] = "get_upstream")

\* C34: whatever the interleaving of WatchConfig, StopWatching and
\* UpdateConfig, no send reaches a closed subscriber channel; a channel that
\* StopWatching has closed is no longer in the list, stays closed and is
\* given no further configuration; and an accepted update completes, with
\* answer 200, leaving every full buffer as it was.
C34_SubscriptionsSafe ==
    /\ [](/\ panicked = None
          /\ \A c \in DOMAIN chans : chans[c].closed => c \notin Range(watchers))
    /\ [][/\ \A c \in DOMAIN chans :
                chans[c].closed =>
                   /\ c \in DOMAIN chans'
                   /\ chans'[c].closed
                   /\ c \notin Range(watchers')
                   /\ Len(chans'[c].buf) <= Len(chans[c].buf)
          /\ config' # config =>
                /\ adminResp' = 200
                /\ \A c \in DOMAIN chans :
                      Len(chans[c].buf) = 1 => chans'[c] = chans[c]]_vars

\* a stopped channel that stayed empty through a later accepted update, next
\* to a listed channel whose full buffer made the manager drop that update
C34_Witness ==
    /\ panicked = None
    /\ \E c1, c2 \in DOMAIN chans :
          /\ chans[c1].closed
          /\ chans[c1].buf = <<>>
          /\ c1 \notin Range(watchers)
          /\ c2 \in Range(watchers)
          /\ Len(chans[c2].buf) = 1
          /\ chans[c2].buf[1] # config
          /\ config.Backends # Live

\* C35: stopping the sampler is safe: once Stop has cancelled the context
\* and closed the sample and report channels, no iteration of the sampling
\* loop and no spawned report task sends on a closed channel.
C35_StopIsSafe == panicked # "send on closed channel"

\* C36: with finitely many concurrent IncConnections and DecConnections
\* calls, every DecConnections call returns, and it returns either from the
\* load that observed a gauge of 0, leaving the gauge alone, or from the
\* compare-and-swap that lowered the gauge by exactly 1.
C36_DecTerminates ==
    /\ \A g \in Callers : (pc[g] \in {"dec_load", "dec_cas"}) ~> (pc[g] = "returned")
    /\ [][\A g \in Callers :
             (pc[g] # "done" /\ pc'[g] = "done") =>
                \/ /\ pc[g] = "dec_load"
                   /\ Connections[backend[g]] <= 0
                   /\ Connections' = Connections
                \/ /\ pc[g] = "dec_cas"
                   /\ Connections' = [Connections EXCEPT ![backend[g]] = @ - 1]]_vars

\* one call has returned while another caller holds a stale load, so its
\* compare-and-swap will fail and the loop must go round again
C36_Witness ==
    \E g, h \in Callers :
       /\ pc[g] = "returned"
       /\ backend[g] # None
       /\ pc[h] = "dec_cas"
       /\ current[h] # Connections[backend[h]]

\* C37: a backend whose max_conn is 0 in the file is unbounded once loaded:
\* the limit check never holds for it, and while it is the active backend no
\* request is refused for the connection limit.
C37_ZeroIsUnbounded ==
    \A e \in Range(file.Backends["default"]) :
       e.MaxConn = 0 =>
          /\ ~IsConnectionLimitReached(e.ID)
          /\ IsActive(e.ID) /\ Active[e.ID] => \A r \in DOMAIN message : message[r] # MsgLimit

\* C38: the balancer a request is dispatched with is the rule's override for
\* the request's tag (websocket when Upgrade is "websocket", else sse when
\* Accept is "text/event-stream", else https on TLS, else http) when the rule
\* has one, else the rule's default policy, and least_connections_weight when
\* that name is not one of the five known policies.
C38_PolicyChoice ==
    Len(callRet) = 2 =>
       LET tag == IF callArg.Upgrade = "websocket" THEN "websocket"
                  ELSE IF callArg.Accept = "text/event-stream" THEN "sse"
                  ELSE IF callArg.TLS THEN "https"
                  ELSE "http"
           name == IF tag \in DOMAIN callArg.rule.Protocols
                   THEN callArg.rule.Protocols[tag]
                   ELSE callArg.rule.LoadBalancer
       IN callRet[2] = IF name \in {IPHash, LeastConnections, LeastConnectionsWeight,
                                    Weight, PerformanceLCW}
                       THEN name ELSE LeastConnectionsWeight

\* a request with both the Upgrade and the Accept header under a rule that
\* overrides both tags got the websocket override
C38_Witness ==
    /\ callArg.Upgrade = "websocket"
    /\ callArg.Accept = "text/event-stream"
    /\ DOMAIN callArg.rule.Protocols = {"websocket", "sse"}
    /\ callRet = <<"websocket", IPHash>>

C40_RetryReselects ==
    [][\A r \in DOMAIN pc :
          (pc[r] = "inflight" /\ attempts'[r] = attempts[r] + 1) =>
             /\ backend'[r] \in SelectBackend(GetBalancer(Routing["default"].LoadBalancer),
                                              GetBackends)
             /\ Connections'[backend'[r]] = Connections[backend'[r]] + 1]_vars

====
